---- MODULE Spec2Model ----
(***************************************************************************)
(* The selection editor of ExtractionPanel (pen polygon, undo/redo,         *)
(* smart box selection) as a state machine.  Coordinates are exact: the     *)
(* pointer positions and the viewport are chosen so that every image-space  *)
(* coordinate the handlers compute is an integer.                           *)
(***************************************************************************)
EXTENDS Integers, Sequences, FiniteSets, TLC

\* ------------------------------------------------------------------ bounds
\* The most history pushes (edits) the model explores from the mounted panel.
MaxEdits == 3
\* The most history pushes the model explores when the smart tool is in use.
MaxSmartEdits == 2
\* The most history pushes the model explores once a triangle's vertices are drawn.
MaxDrawnEdits == 1
\* The most segmentation calls the model explores.
MaxCalls == 1
\* The farthest (screen pixels, per axis) the model pans away from the fit.
MaxPan == 0
\* The most undo/redo keystrokes the model explores while the button is held.
MaxKeys == 3
\* Extractions the user starts in one session.
MaxAttempts == 2
\* Images the user generates or uploads in one session.
MaxImages == 3
\* The side, in pixels, of the largest mask traced exhaustively.
MaxMaskSide == 3
\* The side, in pixels, of the largest mask a filled rectangle is placed in.
MaxFieldSide == 5
\* The longest point sequence simplified.
MaxPoints == 4
\* The largest coordinate of a point to be simplified.
MaxGrid == 2
\* The largest tolerance of a simplification.
MaxTolerance == 2
\* The number of zoom steps the user takes.
MaxZooms == 3
\* The number of times the user moves a slider or the checkbox of the keying.
MaxMoves == 3
\* The number of calls of preloadModel and segmentObject.
MaxLoads == 4
\* The largest image-space coordinate (in absolute value) a dragged shape reaches.
MaxCoord == 60

\* --------------------------------------------------------------- constants
POINT_RADIUS == 6
\* hitRadius = (POINT_RADIUS + 4) / scale
HIT_SLACK == 4
\* selectionBox.w > 5 && selectionBox.h > 5
MIN_BOX == 5
\* points.length > 2
MIN_CLOSED == 2
\* handleImageLoad: const padding = 40
FIT_PADDING == 40

\* ------------------------------------------------------------------ values
\* `null` of a Polygon | Point | Box state field.
Null == [null |-> TRUE]
\* An array slot that was never assigned (a[i] = v with i > a.length).
Hole == [hole |-> TRUE]
\* `null` of draggedPointIndex (indices are 0-based as in the code).
NoIndex == -1

Pt(px, py) == [x |-> px, y |-> py]

Min2(a, b) == IF a < b THEN a ELSE b
Max2(a, b) == IF a > b THEN a ELSE b
Abs(a) == IF a < 0 THEN -a ELSE a

\* The viewport's client size and the image sizes the panel is opened on.
ClientSize == [w |-> 240, h |-> 240]
ImageSizes == {[w |-> 400, h |-> 400]}
\* The natural sizes of the images zoomed and fitted.
ViewImageSizes ==
  {[w |-> 400, h |-> 400], [w |-> 4000, h |-> 4000], [w |-> 100, h |-> 100],
   [w |-> 800, h |-> 400]}
\* The values of deltaY of the wheel events, and the points they happen at.
WheelDeltas == {-10000, -1000, 500, 1000}
WheelAnchors == {[x |-> 0, y |-> 0], [x |-> 120, y |-> 120], [x |-> 200, y |-> 40]}

\* Pointer positions (clientX/clientY relative to the viewport rectangle).
PointerSet ==
  { Pt(20, 20), Pt(50, 20), Pt(20, 50), Pt(30, 30), Pt(30, 20) }

VARIABLES
  inputMode,          \* 'text' | 'draw' | 'smart'
  scale,              \* [num, den]: the rational num/den
  offset,             \* Point, screen pixels
  isPanning, panStart,
  polygon,            \* Polygon | Null
  history, future,    \* sequences of Polygon | Null
  draggedPointIndex,  \* 0-based index | NoIndex
  isDraggingPolygon, dragStartPos,
  selectionBox, isSegmenting, dragStartBoxPos,
  calls,              \* segmentObject calls in flight, each with the polygon
                      \* its handleWindowMouseUp closure captured and the
                      \* box-drag that made it
  mouseHeld,          \* the primary button is down (between mousedown and mouseup)
  editsLeft,          \* history pushes the session still makes
  callsLeft,          \* segmentation calls the user still triggers
  keysLeft,           \* undo/redo keystrokes the user still makes while the
                      \* button is held
  event,              \* the handler branch that ran last, with its pointer event
  gesture,            \* while (and right after) a drag that nothing interrupted:
                      \* the polygon and the pointer position at its pointer-down,
                      \* its moves so far, and whether it was undone after its end
  run,                \* the undos, then redos, made in a row, with the polygon
                      \* before the first undo and before the first redo
  viewMode,           \* 'source' | 'result'
  prompt,             \* the text of the panel's prompt field
  keepOriginalSize, useAIBackgroundRemoval, removeWhite,
  extractedBase64,    \* [id, ok]: the payload of extraction `id`, decodable
                      \* as an image or not | Null
  processedBase64,    \* [of, keyed]: made from the payload of extraction `of`,
                      \* by a keying pass (then with the pixels it published)
                      \* or as it is | Null
  loading,
  error,              \* [message] | Null
  extractions,        \* handleExtract calls suspended at an await
  passes,             \* images of the keying effect whose load event is pending,
                      \* with the settings their closures hold
  attemptsLeft,       \* extractions the user still starts
  appPrompt,          \* App: the text of the generation prompt field
  isGenerating, currentImage, appHistory, mode,
  appError,           \* App: the message | Null
  generations,        \* handleGenerate calls suspended at their await
  imagesLeft,         \* images the user still asks for
  imgDimensions,      \* [w, h]: the natural size of the image
  zoomsLeft,          \* zoom and fit steps the user still makes
  tolerance, edgeSoftness,
  movesLeft,          \* slider and checkbox changes the user still makes
  tracer,             \* a run of traceContour: its arguments and its locals
  simplifier,         \* a call of simplifyPolygon: its arguments and result
  tester,             \* a call of isPointInPolygon: its arguments and result
  keyer,              \* a keying pass over an ImageData: its pixels, settings and result
  canvas,             \* [data]: the pixels on the hidden canvas (hiddenCanvasRef) | Null
  model, processor,   \* segmentationService: the singletons | Null
  isModelLoading,     \* segmentationService: the flag of preloadModel
  preloads,           \* calls of preloadModel suspended at an await
  segments,           \* calls of segmentObject suspended at an await
  loadsLeft           \* calls of the service still to be made

vars == << inputMode, scale, offset, isPanning, panStart, polygon, history,
           future, draggedPointIndex, isDraggingPolygon, dragStartPos,
           selectionBox, isSegmenting, dragStartBoxPos, calls, callsLeft,
           mouseHeld, editsLeft, keysLeft, event, gesture, run,
           viewMode, prompt, keepOriginalSize, useAIBackgroundRemoval,
           removeWhite, extractedBase64, processedBase64, loading, error,
           extractions, passes, attemptsLeft,
           appPrompt, isGenerating, currentImage, appHistory, mode, appError,
           generations, imagesLeft,
           imgDimensions, zoomsLeft, tolerance, edgeSoftness, movesLeft,
           tracer, simplifier, tester, keyer, canvas,
           model, processor, isModelLoading, preloads, segments, loadsLeft >>

viewVars == << scale, offset, isPanning, panStart >>
dragVars == << draggedPointIndex, isDraggingPolygon, dragStartPos >>
smartVars == << selectionBox, isSegmenting, dragStartBoxPos, calls, callsLeft >>
histVars == << history, future, editsLeft >>
rasterVars == << extractedBase64, processedBase64 >>
taskVars == << prompt, keepOriginalSize, useAIBackgroundRemoval, removeWhite,
              loading, error, extractions, passes, attemptsLeft >>
appVars == << appPrompt, isGenerating, currentImage, appHistory, mode, appError,
             generations, imagesLeft >>
geometryVars == << inputMode, viewVars, polygon, histVars, dragVars, smartVars,
                  mouseHeld, keysLeft, gesture, run >>
panelVars == << geometryVars, rasterVars, viewMode, taskVars >>
zoomVars == << imgDimensions, zoomsLeft >>
tuneVars == << tolerance, edgeSoftness, movesLeft, canvas >>
samVars == << model, processor, isModelLoading, preloads, segments, loadsLeft >>
libVars == << tracer, simplifier, tester, keyer, samVars >>
restVars == << zoomVars, tuneVars, libVars >>

\* ----------------------------------------------------------------- helpers
\* handleImageLoad: fitScale = Math.min(scaleX, scaleY, 1), as a fraction.
\* scaleX = (cw - padding) / nw, scaleY = (ch - padding) / nh.
FitScale(img) ==
  LET ax == ClientSize.w - FIT_PADDING
      ay == ClientSize.h - FIT_PADDING
      \* the smaller of ax/img.w and ay/img.h
      s  == IF ax * img.h <= ay * img.w THEN [num |-> ax, den |-> img.w]
                                        ELSE [num |-> ay, den |-> img.h]
      c  == IF s.num >= s.den THEN [num |-> 1, den |-> 1] ELSE s
      g  == CHOOSE d \in 1..c.num :
              /\ c.num % d = 0 /\ c.den % d = 0
              /\ \A d2 \in 1..c.num : (c.num % d2 = 0 /\ c.den % d2 = 0) => d2 <= d
  IN [num |-> c.num \div g, den |-> c.den \div g]

\* handleImageLoad: offset = (client - natural * fitScale) / 2.
FitOffset(img) ==
  LET s == FitScale(img)
  IN Pt((ClientSize.w - (img.w * s.num) \div s.den) \div 2,
        (ClientSize.h - (img.h * s.num) \div s.den) \div 2)

\* ix = (vx - offset.x) / scale
getMousePosInImageSpace(e) ==
  Pt(((e.x - offset.x) * scale.den) \div scale.num,
     ((e.y - offset.y) * scale.den) \div scale.num)

\* getDistance(p1, p2) <= (POINT_RADIUS + 4) / scale, squared on both sides.
WithinHitRadius(p1, p2) ==
  ((p1.x - p2.x) * (p1.x - p2.x) + (p1.y - p2.y) * (p1.y - p2.y))
     * scale.num * scale.num
   <= (POINT_RADIUS + HIT_SLACK) * (POINT_RADIUS + HIT_SLACK)
        * scale.den * scale.den

\* The loop `for i: if (getDistance(pos, points[i]) <= hitRadius)`: the first
\* index hit, NoIndex when none is.
RECURSIVE ScanHit(_, _, _)
ScanHit(pos, points, i) ==
  IF i >= Len(points) THEN NoIndex
  ELSE IF WithinHitRadius(pos, points[i + 1]) THEN i
  ELSE ScanHit(pos, points, i + 1)

HasHole(points) == \E i \in 1..Len(points) : points[i] = Hole

\* A bounding box whose width and height are measured from the origin.
calculateBoundingBoxFromOrigin(points) ==
  LET present == { i \in 1..Len(points) : points[i] # Hole }
      xs == { points[i].x : i \in present }
      ys == { points[i].y : i \in present }
      minX == CHOOSE v \in xs : \A u \in xs : v <= u
      maxX == CHOOSE v \in xs : \A u \in xs : v >= u
      minY == CHOOSE v \in ys : \A u \in ys : v <= u
      maxY == CHOOSE v \in ys : \A u \in ys : v >= u
  IN [x |-> minX, y |-> minY, w |-> maxX, h |-> maxY]

\* points.forEach skips the slots that were never assigned.
calculateBoundingBox(points) ==
  LET present == { i \in 1..Len(points) : points[i] # Hole }
      xs == { points[i].x : i \in present }
      ys == { points[i].y : i \in present }
      minX == CHOOSE v \in xs : \A u \in xs : v <= u
      maxX == CHOOSE v \in xs : \A u \in xs : v >= u
      minY == CHOOSE v \in ys : \A u \in ys : v <= u
      maxY == CHOOSE v \in ys : \A u \in ys : v >= u
  IN [x |-> minX, y |-> minY, w |-> maxX - minX, h |-> maxY - minY]

Poly(points, closed) ==
  [points |-> points, isClosed |-> closed,
   boundingBox |-> calculateBoundingBox(points)]

\* A crossing test that clears the division as if every edge ran downwards.
IntersectDownwards(p, pi, pj) ==
  /\ (pi.y > p.y) # (pj.y > p.y)
  /\ (p.x - pi.x) * (pj.y - pi.y) < (pj.x - pi.x) * (p.y - pi.y)

\* The even-odd ray cast; j runs one behind i, starting at the last point.
\* p.x < (xj - xi) * (p.y - yi) / (yj - yi) + xi, cleared of the division.
Intersect(p, pi, pj) ==
  /\ (pi.y > p.y) # (pj.y > p.y)
  /\ IF pj.y - pi.y > 0
       THEN (p.x - pi.x) * (pj.y - pi.y) < (pj.x - pi.x) * (p.y - pi.y)
       ELSE (p.x - pi.x) * (pj.y - pi.y) > (pj.x - pi.x) * (p.y - pi.y)

isPointInPolygon(p, points) ==
  LET n == Len(points)
      crossing == { i \in 1..n :
                      Intersect(p, points[i], points[IF i = 1 THEN n ELSE i - 1]) }
  IN Cardinality(crossing) % 2 = 1


\* The box handed to segmentObject: [xmin, ymin, xmax, ymax].
BoxOf(b) == [x1 |-> b.x, y1 |-> b.y, x2 |-> b.x + b.w, y2 |-> b.y + b.h]

\* The fallback polygon of segmentObject's catch: the corners of the box in the
\* order (x1,y1), (x2,y1), (x2,y2), (x1,y2).
BoxCorners(box) ==
  << Pt(box.x1, box.y1), Pt(box.x2, box.y1), Pt(box.x2, box.y2), Pt(box.x1, box.y2) >>

\* What segmentObject resolves with (it never rejects: its own catch returns the
\* box).  The inference is a black box, so the traced and simplified contour is
\* any of: no point (empty mask), two points, or four points, which is also
\* the fallback, the four corners of the box.
segmentObject(box) ==
  { << >>,
    << Pt(box.x1, box.y1), Pt(box.x2, box.y2) >>,
    << Pt(box.x1, box.y1), Pt(box.x2, box.y1),
       Pt(box.x2, box.y2), Pt(box.x1, box.y2) >> }

\* What the handler that ran last did, and the pointer event it ran on.
Ev(op, e) == [op |-> op, e |-> e]

\* A drag begins at pointer-down on `pos`, with the polygon of that moment.
Started(pos) == [polygon |-> polygon, pos |-> pos, moves |-> 0, undone |-> FALSE]

\* One more pointer-move of the drag (the moves are counted up to two).
Moved ==
  IF gesture = Null THEN Null
  ELSE [gesture EXCEPT !.moves = IF gesture.moves = 0 THEN 1 ELSE 2]

\* An undo right after the pointer-up that ended the drag.
UndoneAfter ==
  IF event.op = "up" /\ gesture # Null
    THEN [gesture EXCEPT !.undone = TRUE]
    ELSE Null

\* The polygon and the two stacks as they are now.
Held == [polygon |-> polygon, history |-> history, future |-> future]

\* No run of redos followed by undos is under way.
NoBack == [redos |-> 0, undos |-> 0, start |-> Null]

\* The run of redos after one more redo: it extends a run of redos, or starts
\* one from the polygon and stacks of now.
BackRedo ==
  IF run.back.redos > 0 /\ run.back.undos = 0
    THEN [run.back EXCEPT !.redos = run.back.redos + 1]
    ELSE [redos |-> 1, undos |-> 0, start |-> Held]

\* The run of redos after one more undo: it extends a run of redos followed by
\* fewer undos.
BackUndo ==
  IF run.back.redos > run.back.undos
    THEN [run.back EXCEPT !.undos = run.back.undos + 1]
    ELSE NoBack

NoRun == [undos |-> 0, redos |-> 0, before |-> Null, mid |-> Null,
          start |-> Null, back |-> NoBack]

\* The run after one more undo: it extends a run of undos, or starts one.
RunUndo ==
  IF run.undos > 0 /\ run.redos = 0
    THEN [run EXCEPT !.undos = run.undos + 1, !.back = BackUndo]
    ELSE [undos |-> 1, redos |-> 0, before |-> polygon, mid |-> Null,
          start |-> Held, back |-> BackUndo]

\* The run after one more redo: it extends a run of undos followed by fewer redos.
RunRedo ==
  IF run.undos > run.redos
    THEN [run EXCEPT !.redos = run.redos + 1,
                     !.mid = IF run.redos = 0 THEN polygon ELSE run.mid,
                     !.back = BackRedo]
    ELSE [NoRun EXCEPT !.back = BackRedo]

\* newPoints = [...polygon.points]; newPoints[i] = pos.  An index past the end
\* leaves the slots in between unassigned.
SetAt(points, i, pos) ==
  [k \in 1..Max2(Len(points), i + 1) |->
     IF k = i + 1 THEN pos
     ELSE IF k <= Len(points) THEN points[k]
     ELSE Hole]

\* polygon.points.map(p => ({x: p.x + dx, y: p.y + dy}))
Translate(points, dx, dy) ==
  [k \in 1..Len(points) |-> Pt(points[k].x + dx, points[k].y + dy)]

\* drawCanvas, run by the effect on [drawCanvas] after every change of the
\* polygon, reads polygon.points[i].x for every i below points.length.  On a
\* slot that was never assigned that is a TypeError inside an effect; no error
\* boundary is mounted, so React unmounts the root and every listener with it.
Unmounted == polygon # Null /\ HasHole(polygon.points)

\* ----------------------------------------------------------------- initial
\* segmentationService as imported: nothing loaded, nothing called.
ServiceIdle ==
  /\ model = Null
  /\ processor = Null
  /\ isModelLoading = FALSE
  /\ preloads = << >>
  /\ segments = << >>
  /\ loadsLeft = 0

\* No function of the services is being exercised on its own.
NoCall ==
  /\ tracer = Null /\ simplifier = Null /\ tester = Null /\ keyer = Null
  /\ ServiceIdle

\* The initial values of the panel's extraction state.
PanelIdle ==
  /\ viewMode = "source"
  /\ prompt = ""
  /\ keepOriginalSize = TRUE
  /\ useAIBackgroundRemoval = TRUE
  /\ removeWhite = FALSE
  /\ extractedBase64 = Null
  /\ processedBase64 = Null
  /\ loading = FALSE
  /\ error = Null
  /\ extractions = << >>
  /\ passes = << >>
  /\ tolerance = 15
  /\ edgeSoftness = 2
  /\ canvas = Null
  /\ NoCall

\* App while the panel is shown: one image was uploaded (handleFileUpload) and
\* "Extract" was pressed on it (startExtraction); nothing is being generated.
AppExtracting ==
  /\ appPrompt = ""
  /\ isGenerating = FALSE
  /\ currentImage = [id |-> 1]
  /\ appHistory = << [id |-> 1] >>
  /\ mode = "EXTRACT"
  /\ appError = Null
  /\ generations = << >>
  /\ imagesLeft = 0

\* The panel as mounted, after the image's load event ran handleImageLoad.
Opened ==
  /\ PanelIdle
  /\ AppExtracting
  /\ inputMode = "text"
  /\ \E img \in ImageSizes :
       /\ scale = FitScale(img)
       /\ offset = FitOffset(img)
       /\ imgDimensions = img
  /\ isPanning = FALSE
  /\ panStart = Null
  /\ polygon = Null
  /\ history = << >>
  /\ future = << >>
  /\ draggedPointIndex = NoIndex
  /\ isDraggingPolygon = FALSE
  /\ dragStartPos = Null
  /\ selectionBox = Null
  /\ isSegmenting = FALSE
  /\ dragStartBoxPos = Null
  /\ calls = << >>
  /\ mouseHeld = FALSE
  /\ event = Ev("mount", Null)
  /\ gesture = Null
  /\ run = NoRun

\* The user keeps the keyboard alone while the mouse button is held.
Init ==
  /\ Opened
  /\ editsLeft = MaxSmartEdits /\ keysLeft = 0 /\ callsLeft = MaxCalls
  /\ attemptsLeft = 0
  /\ zoomsLeft = 0
  /\ movesLeft = 0

\* The user types up to MaxKeys undo/redo shortcuts while the button is held.
InitPen ==
  /\ Opened
  /\ editsLeft = MaxEdits /\ keysLeft = MaxKeys /\ callsLeft = 0
  /\ attemptsLeft = 0
  /\ zoomsLeft = 0
  /\ movesLeft = 0

\* ----------------------------------------------------------------- history
\* A history push that leaves the redo stack as it was.
addToHistoryKeepsFuture(p) ==
  /\ editsLeft > 0
  /\ editsLeft' = editsLeft - 1
  /\ history' = Append(history, p)
  /\ future' = future

\* setHistory(prev => [...prev, polygon]); setFuture([]) with the polygon of
\* the calling closure.
addToHistory(p) ==
  /\ editsLeft > 0
  /\ editsLeft' = editsLeft - 1
  /\ history' = Append(history, p)
  /\ future' = << >>

\* An undo that does not put the current polygon on the redo stack.
undoStepKeepsFuture ==
  [polygon |-> history[Len(history)],
   history |-> SubSeq(history, 1, Len(history) - 1),
   future  |-> future]

\* handleUndo past its early return: previous = history[history.length - 1],
\* newHistory = history.slice(0, -1), setFuture(prev => [polygon, ...prev]).
undoStep ==
  [polygon |-> history[Len(history)],
   history |-> SubSeq(history, 1, Len(history) - 1),
   future  |-> << polygon >> \o future]

\* A redo that does not put the current polygon on the undo stack.
redoStepKeepsHistory ==
  [polygon |-> Head(future),
   history |-> history,
   future  |-> Tail(future)]

\* A redo that takes the oldest entry of the redo stack.
redoStepFromEnd ==
  [polygon |-> future[Len(future)],
   history |-> Append(history, polygon),
   future  |-> SubSeq(future, 1, Len(future) - 1)]

\* handleRedo past its early return: next = future[0],
\* newFuture = future.slice(1), setHistory(prev => [...prev, polygon]).
redoStep ==
  [polygon |-> Head(future),
   history |-> Append(history, polygon),
   future  |-> Tail(future)]

\* Ctrl+Z (any time outside text mode) or the Undo button.
handleUndo ==
  /\ ~Unmounted
  /\ UNCHANGED << taskVars, appVars, restVars >>
  /\ UNCHANGED << rasterVars, viewMode >>
  /\ inputMode # "text"
  /\ IF mouseHeld THEN keysLeft > 0 /\ keysLeft' = keysLeft - 1
                  ELSE keysLeft' = keysLeft
  /\ IF Len(history) = 0
       THEN /\ event' = Ev("undo_noop", Null)
            /\ gesture' = Null
            /\ run' = NoRun
            /\ UNCHANGED << polygon, history, future >>
       ELSE /\ future' = undoStep.future
            /\ history' = undoStep.history
            /\ polygon' = undoStep.polygon
            /\ event' = Ev("undo", Null)
            /\ gesture' = UndoneAfter
            /\ run' = RunUndo
  /\ UNCHANGED << inputMode, viewVars, dragVars, smartVars, mouseHeld, editsLeft >>

\* Ctrl+Shift+Z, Ctrl+Y (any time outside text mode) or the Redo button.
handleRedo ==
  /\ ~Unmounted
  /\ UNCHANGED << taskVars, appVars, restVars >>
  /\ UNCHANGED << rasterVars, viewMode >>
  /\ inputMode # "text"
  /\ IF mouseHeld THEN keysLeft > 0 /\ keysLeft' = keysLeft - 1
                  ELSE keysLeft' = keysLeft
  /\ IF Len(future) = 0
       THEN /\ event' = Ev("redo_noop", Null)
            /\ gesture' = Null
            /\ run' = NoRun
            /\ UNCHANGED << polygon, history, future >>
       ELSE /\ history' = redoStep.history
            /\ future' = redoStep.future
            /\ polygon' = redoStep.polygon
            /\ event' = Ev("redo", Null)
            /\ gesture' = Null
            /\ run' = RunRedo
  /\ UNCHANGED << inputMode, viewVars, dragVars, smartVars, mouseHeld, editsLeft >>

\* The Reset Shape button, rendered while a polygon or a selection box exists.
handleResetPolygon ==
  /\ ~Unmounted
  /\ UNCHANGED << taskVars, appVars, restVars >>
  /\ extractedBase64' = Null
  /\ processedBase64' = Null
  /\ viewMode' = "source"
  /\ inputMode # "text"
  /\ ~mouseHeld
  /\ polygon # Null \/ selectionBox # Null
  /\ addToHistory(polygon)
  /\ polygon' = Null
  /\ selectionBox' = Null
  /\ event' = Ev("reset", Null)
  /\ gesture' = Null
  /\ run' = NoRun
  /\ UNCHANGED << inputMode, viewVars, dragVars, isSegmenting, dragStartBoxPos,
                  calls, callsLeft, mouseHeld, keysLeft >>

\* A mode switch whose effect leaves the history stacks as they were.
setInputModeKeepsHistory(m) ==
  /\ ~Unmounted
  /\ UNCHANGED << taskVars, appVars, restVars >>
  /\ viewMode' = IF m # inputMode THEN "source" ELSE viewMode
  /\ UNCHANGED rasterVars
  /\ ~mouseHeld
  /\ inputMode' = m
  /\ IF m # inputMode /\ m = "text"
       THEN /\ polygon' = Null
            /\ selectionBox' = Null
            /\ UNCHANGED << history, future >>
       ELSE UNCHANGED << polygon, selectionBox, history, future >>
  /\ event' = Ev("mode", Null)
  /\ gesture' = Null
  /\ run' = NoRun
  /\ UNCHANGED << editsLeft, viewVars, dragVars, isSegmenting, dragStartBoxPos,
                  calls, callsLeft, mouseHeld, keysLeft >>

\* A mode button: setInputMode(m), then the effect on [inputMode] when it changed.
setInputMode(m) ==
  /\ ~Unmounted
  /\ UNCHANGED << taskVars, appVars, restVars >>
  /\ viewMode' = IF m # inputMode THEN "source" ELSE viewMode
  /\ UNCHANGED rasterVars
  /\ ~mouseHeld
  /\ inputMode' = m
  /\ IF m # inputMode /\ m = "text"
       THEN /\ polygon' = Null
            /\ selectionBox' = Null
            /\ history' = << >>
            /\ future' = << >>
       ELSE UNCHANGED << polygon, selectionBox, history, future >>
  /\ event' = Ev("mode", Null)
  /\ gesture' = Null
  /\ run' = NoRun
  /\ UNCHANGED << editsLeft, viewVars, dragVars, isSegmenting, dragStartBoxPos,
                  calls, callsLeft, mouseHeld, keysLeft >>

\* A close test that forgets that the polygon must be open.
canCloseWhenClosed(i) == i = 0 /\ Len(polygon.points) > MIN_CLOSED

\* ----------------------------------------------------------------- pointer
\* A close test that forgets the count of points.
canCloseAnyCount(i) == i = 0 /\ ~polygon.isClosed

\* i === 0 && !polygon.isClosed && polygon.points.length > 2
canClose(i) == i = 0 /\ ~polygon.isClosed /\ Len(polygon.points) > MIN_CLOSED

\* An append that puts the new point first.
prepended(pos) ==
  Poly(IF polygon # Null THEN << pos >> \o polygon.points ELSE << pos >>, FALSE)

\* newPoints = prev ? [...prev.points, pos] : [pos], open, with its bounding box
appended(pos) ==
  Poly(IF polygon # Null THEN Append(polygon.points, pos) ELSE << pos >>, FALSE)

\* onMouseDown of the viewport, with the primary button and no shift key.
handleMouseDown(e) ==
  /\ ~Unmounted
  /\ UNCHANGED << taskVars, appVars, restVars >>
  /\ viewMode = "source"
  /\ UNCHANGED << rasterVars, viewMode >>
  /\ ~mouseHeld
  /\ mouseHeld' = TRUE
  /\ UNCHANGED keysLeft
  /\ LET pos == getMousePosInImageSpace(e)
         hit == ScanHit(pos, polygon.points, 0)
     IN
     IF inputMode = "text" THEN
       /\ isPanning' = TRUE
       /\ panStart' = e
       /\ event' = Ev("pan_start", e)
       /\ gesture' = Null
       /\ run' = NoRun
       /\ UNCHANGED << inputMode, scale, offset, polygon, histVars, dragVars,
                       smartVars >>
     ELSE IF inputMode = "smart" THEN
       /\ dragStartBoxPos' = pos
       /\ selectionBox' = [x |-> pos.x, y |-> pos.y, w |-> 0, h |-> 0]
       /\ polygon' = Null
       /\ event' = Ev("box_start", e)
       /\ gesture' = Started(pos)
       /\ run' = NoRun
       /\ UNCHANGED << inputMode, viewVars, histVars, dragVars, isSegmenting,
                       calls, callsLeft >>
     ELSE IF polygon # Null /\ hit # NoIndex THEN
       IF canClose(hit) THEN
         /\ addToHistory(polygon)
         /\ polygon' = [polygon EXCEPT
                          !.isClosed = TRUE,
                          !.boundingBox = calculateBoundingBox(polygon.points)]
         /\ event' = Ev("close", e)
         /\ gesture' = Null
         /\ run' = NoRun
         /\ UNCHANGED << inputMode, viewVars, dragVars, smartVars >>
       ELSE
         /\ addToHistory(polygon)
         /\ draggedPointIndex' = hit
         /\ event' = Ev("vertex_drag_start", e)
         /\ gesture' = Started(pos)
         /\ run' = NoRun
         /\ UNCHANGED << inputMode, viewVars, polygon, isDraggingPolygon,
                         dragStartPos, smartVars >>
     ELSE IF polygon # Null /\ polygon.isClosed
             /\ isPointInPolygon(pos, polygon.points) THEN
       /\ addToHistory(polygon)
       /\ isDraggingPolygon' = TRUE
       /\ dragStartPos' = pos
       /\ event' = Ev("shape_drag_start", e)
       /\ gesture' = Started(pos)
       /\ run' = NoRun
       /\ UNCHANGED << inputMode, viewVars, polygon, draggedPointIndex,
                       smartVars >>
     ELSE IF polygon = Null \/ ~polygon.isClosed THEN
       /\ addToHistory(polygon)
       /\ polygon' = appended(pos)
       /\ event' = Ev("append", e)
       /\ gesture' = Null
       /\ run' = NoRun
       /\ UNCHANGED << inputMode, viewVars, dragVars, smartVars >>
     ELSE
       /\ event' = Ev("down_miss", e)
       /\ gesture' = Null
       /\ run' = NoRun
       /\ UNCHANGED << inputMode, viewVars, polygon, histVars, dragVars,
                       smartVars >>

\* A vertex-drag move that pushes a history entry of its own.
moveVertexPushing(e) ==
  LET pos == getMousePosInImageSpace(e)
      newPoints == SetAt(polygon.points, draggedPointIndex, pos)
  IN /\ polygon' = [polygon EXCEPT
                      !.points = newPoints,
                      !.boundingBox = calculateBoundingBox(newPoints)]
     /\ history' = Append(history, polygon)
     /\ event' = Ev("vertex_drag", e)
     /\ gesture' = Moved
     /\ run' = NoRun
     /\ UNCHANGED << inputMode, viewVars, future, editsLeft, dragVars, smartVars,
                     mouseHeld, keysLeft >>

\* handleWindowMouseMove with a vertex drag active:
\* newPoints = [...polygon.points]; newPoints[draggedPointIndex] = pos
moveVertex(e) ==
  LET pos == getMousePosInImageSpace(e)
      newPoints == SetAt(polygon.points, draggedPointIndex, pos)
  IN /\ polygon' = [polygon EXCEPT
                      !.points = newPoints,
                      !.boundingBox = calculateBoundingBox(newPoints)]
     /\ event' = Ev("vertex_drag", e)
     /\ gesture' = Moved
     /\ run' = NoRun
     /\ UNCHANGED << inputMode, viewVars, histVars, dragVars, smartVars,
                     mouseHeld, keysLeft >>

\* A shape-drag move that keeps measuring from the pointer-down position.
moveShapeKeepsStart(e) ==
  LET pos == getMousePosInImageSpace(e)
      newPoints == Translate(polygon.points, pos.x - dragStartPos.x,
                             pos.y - dragStartPos.y)
  IN /\ polygon' = [polygon EXCEPT
                      !.points = newPoints,
                      !.boundingBox = calculateBoundingBox(newPoints)]
     /\ \A k \in 1..Len(newPoints) :
          Abs(newPoints[k].x) <= MaxCoord /\ Abs(newPoints[k].y) <= MaxCoord
     /\ dragStartPos' = dragStartPos
     /\ event' = Ev("shape_drag", e)
     /\ gesture' = Moved
     /\ run' = NoRun
     /\ UNCHANGED << inputMode, viewVars, histVars, draggedPointIndex,
                     isDraggingPolygon, smartVars, mouseHeld, keysLeft >>

\* handleWindowMouseMove with a shape drag active: every point moves by
\* pos - dragStartPos, then setDragStartPos(pos).
moveShape(e) ==
  LET pos == getMousePosInImageSpace(e)
      newPoints == Translate(polygon.points, pos.x - dragStartPos.x,
                             pos.y - dragStartPos.y)
  IN /\ polygon' = [polygon EXCEPT
                      !.points = newPoints,
                      !.boundingBox = calculateBoundingBox(newPoints)]
     /\ \A k \in 1..Len(newPoints) :
          Abs(newPoints[k].x) <= MaxCoord /\ Abs(newPoints[k].y) <= MaxCoord
     /\ dragStartPos' = pos
     /\ event' = Ev("shape_drag", e)
     /\ gesture' = Moved
     /\ run' = NoRun
     /\ UNCHANGED << inputMode, viewVars, histVars, draggedPointIndex,
                     isDraggingPolygon, smartVars, mouseHeld, keysLeft >>

\* The window's mousemove listener.
handleWindowMouseMove(e) ==
  /\ ~Unmounted
  /\ UNCHANGED << taskVars, appVars, restVars >>
  /\ viewMode = "source"
  /\ UNCHANGED << rasterVars, viewMode >>
  /\ LET pos == getMousePosInImageSpace(e) IN
     IF isPanning /\ panStart # Null THEN
       /\ offset' = Pt(offset.x + (e.x - panStart.x), offset.y + (e.y - panStart.y))
       /\ \E img \in ImageSizes :
            /\ Abs(offset'.x - FitOffset(img).x) <= MaxPan
            /\ Abs(offset'.y - FitOffset(img).y) <= MaxPan
       /\ panStart' = e
       /\ event' = Ev("pan", Null)
       /\ gesture' = Null
       /\ run' = NoRun
       /\ UNCHANGED << inputMode, scale, isPanning, polygon, histVars, dragVars,
                       smartVars, mouseHeld, keysLeft >>
     ELSE IF inputMode = "smart" /\ dragStartBoxPos # Null THEN
       /\ selectionBox' = [x |-> Min2(pos.x, dragStartBoxPos.x),
                           y |-> Min2(pos.y, dragStartBoxPos.y),
                           w |-> Abs(pos.x - dragStartBoxPos.x),
                           h |-> Abs(pos.y - dragStartBoxPos.y)]
       /\ event' = Ev("box_move", Null)
       /\ UNCHANGED gesture
       /\ run' = NoRun
       /\ UNCHANGED << inputMode, viewVars, polygon, histVars, dragVars,
                       isSegmenting, dragStartBoxPos, calls, callsLeft, mouseHeld,
                       keysLeft >>
     ELSE IF inputMode = "draw" /\ draggedPointIndex # NoIndex /\ polygon # Null THEN
       moveVertex(e)
     ELSE IF inputMode = "draw" /\ isDraggingPolygon /\ dragStartPos # Null
             /\ polygon # Null THEN
       moveShape(e)
     ELSE
       \* only the hover flags change
       UNCHANGED vars

\* A test that lets every non-empty contour through.
installableNonEmpty(points) == Len(points) > 0

\* handleWindowMouseUp after the await: if (points.length > 2)
installable(points) == Len(points) > MIN_CLOSED

\* The window's mouseup listener, up to its await (or to its end when it does
\* not call segmentObject).
handleWindowMouseUp ==
  /\ ~Unmounted
  /\ UNCHANGED << taskVars, appVars, restVars >>
  /\ UNCHANGED << rasterVars, viewMode >>
  /\ mouseHeld
  /\ mouseHeld' = FALSE
  /\ isPanning' = FALSE
  /\ panStart' = IF isPanning THEN Null ELSE panStart
  /\ IF inputMode = "smart" /\ dragStartBoxPos # Null /\ selectionBox # Null THEN
       /\ dragStartBoxPos' = Null
       /\ IF selectionBox.w > MIN_BOX /\ selectionBox.h > MIN_BOX THEN
            /\ callsLeft > 0
            /\ callsLeft' = callsLeft - 1
            /\ isSegmenting' = TRUE
            /\ calls' = Append(calls, [polygon |-> polygon,
                                       box |-> BoxOf(selectionBox),
                                       gesture |-> gesture])
            /\ event' = Ev("segment_call", Null)
            /\ gesture' = Null
            /\ run' = NoRun
            /\ UNCHANGED << selectionBox, dragVars >>
          ELSE
            /\ selectionBox' = Null
            /\ draggedPointIndex' = NoIndex
            /\ isDraggingPolygon' = FALSE
            /\ dragStartPos' = Null
            /\ event' = Ev("box_small", Null)
            /\ gesture' = Null
            /\ run' = NoRun
            /\ UNCHANGED << isSegmenting, calls, callsLeft >>
     ELSE
       /\ draggedPointIndex' = NoIndex
       /\ isDraggingPolygon' = FALSE
       /\ dragStartPos' = Null
       /\ event' = Ev("up", Null)
       /\ UNCHANGED gesture
       /\ run' = NoRun
       /\ UNCHANGED smartVars
  /\ UNCHANGED << inputMode, scale, offset, polygon, histVars, keysLeft >>

\* The rest of handleWindowMouseUp, after `await segmentObject(...)` resolved
\* with `points` for the call at position k.
segmentResolved(k, points) ==
  /\ ~Unmounted
  /\ UNCHANGED << taskVars, appVars, restVars >>
  /\ viewMode' = IF installable(points) /\ inputMode # "draw" THEN "source"
                                                                ELSE viewMode
  /\ UNCHANGED rasterVars
  /\ k \in 1..Len(calls)
  /\ points \in segmentObject(calls[k].box)
  /\ IF installable(points)
       THEN /\ addToHistory(calls[k].polygon)
            /\ polygon' = Poly(points, TRUE)
            /\ inputMode' = "draw"
            /\ selectionBox' = Null
            /\ event' = Ev("segment_installed", calls[k].gesture)
            /\ gesture' = Null
            /\ run' = NoRun
       ELSE /\ event' = Ev("segment_dropped", Null)
            /\ gesture' = Null
            /\ run' = NoRun
            /\ UNCHANGED << polygon, inputMode, selectionBox, histVars >>
  /\ isSegmenting' = FALSE
  /\ calls' = [i \in 1..(Len(calls) - 1) |-> IF i < k THEN calls[i] ELSE calls[i + 1]]
  /\ draggedPointIndex' = NoIndex
  /\ isDraggingPolygon' = FALSE
  /\ dragStartPos' = Null
  /\ UNCHANGED << viewVars, dragStartBoxPos, callsLeft, mouseHeld, keysLeft >>

\* ------------------------------------------------------------ alpha keying
\* The greatest common divisor of two naturals, not both 0.
RECURSIVE Gcd(_, _)
Gcd(a, b) == IF b = 0 THEN a ELSE Gcd(b, a % b)

\* One pixel of an ImageData: data[i], data[i + 1], data[i + 2], data[i + 3].
Pixel(r, g, b, a) == [r |-> r, g |-> g, b |-> b, a |-> a]

\* (255 - r) ** 2 + (255 - g) ** 2 + (255 - b) ** 2: dist is its square root.
SqDist(px) ==
  (255 - px.r) * (255 - px.r) + (255 - px.g) * (255 - px.g)
    + (255 - px.b) * (255 - px.b)

\* The whole part of the square root of n.
ISqrt(n) == CHOOSE r \in 0..442 : r * r <= n /\ n < (r + 1) * (r + 1)

\* The greatest whole k with k <= a * (sqrt(n) - tol) / range, for a distance
\* in the band: tol <= sqrt(n) < tol + range.
FloorScaled(a, n, tol, range) ==
  CHOOSE k \in 0..a :
    /\ (k * range + a * tol) * (k * range + a * tol) <= a * a * n
    /\ ((k + 1) * range + a * tol) * ((k + 1) * range + a * tol) > a * a * n

\* The double (dist - tol) / range is exact when dist is whole and the fraction
\* in lowest terms has a power of two below the line.  When the fraction is
\* inexact and a * (dist - tol) / range is a whole number k, the floating-point
\* product a * alphaFactor is k or falls just short of k.
FallsShort(a, n, tol, range) ==
  LET d == ISqrt(n) IN
  /\ d * d = n
  /\ d > tol
  /\ (a * (d - tol)) % range = 0
  /\ range \div Gcd(d - tol, range) \notin {1, 2, 4, 8, 16, 32, 64}

\* A pass that leaves the band's rounding at the next whole number above.
ceilAlpha(px, tol, range, short) ==
  LET n == SqDist(px) IN
  IF px.a = 0 THEN 0
  ELSE IF n < tol * tol THEN 0
  ELSE IF n < (tol + range) * (tol + range)
    THEN IF (FloorScaled(px.a, n, tol, range) * range + px.a * tol)
              * (FloorScaled(px.a, n, tol, range) * range + px.a * tol)
              = px.a * px.a * n
           THEN FloorScaled(px.a, n, tol, range)
           ELSE FloorScaled(px.a, n, tol, range) + 1
  ELSE px.a

\* A pass whose band fades the other way, from the full alpha down to 0.
rampDownAlpha(px, tol, range, short) ==
  LET n == SqDist(px) IN
  IF px.a = 0 THEN 0
  ELSE IF n < tol * tol THEN 0
  ELSE IF n < (tol + range) * (tol + range)
    THEN px.a - FloorScaled(px.a, n, tol, range)
  ELSE px.a

\* The body of the pixel loop for one pixel, as the alpha it leaves in
\* data[i + 3]; range = soft * 10.  `short` says whether a product that may
\* fall short of a whole number does.
\*   if (a === 0) continue;
\*   if (dist < tol) alpha = 0
\*   else if (dist < tol + range) alpha = Math.floor(a * ((dist - tol) / range))
keyedAlpha(px, tol, range, short) ==
  LET n == SqDist(px) IN
  IF px.a = 0 THEN 0
  ELSE IF n < tol * tol THEN 0
  ELSE IF n < (tol + range) * (tol + range)
    THEN IF short /\ FallsShort(px.a, n, tol, range)
           THEN FloorScaled(px.a, n, tol, range) - 1
           ELSE FloorScaled(px.a, n, tol, range)
  ELSE px.a

\* The pixel loop over data: only data[i + 3] is ever written.  The rounding of
\* a product depends on the pixel's alpha and distance alone.
keyedData(data, tol, range, short) ==
  [i \in DOMAIN data |->
     [data[i] EXCEPT !.a = keyedAlpha(data[i], tol, range,
                                      << data[i].a, SqDist(data[i]) >> \in short)]]

\* The pixels a pass may be run on.
KeyColours ==
  { Pixel(255, 255, 255, 0), Pixel(247, 255, 255, 0), Pixel(243, 255, 255, 0),
    Pixel(245, 245, 245, 0), Pixel(255, 255, 235, 0), Pixel(240, 240, 240, 0),
    Pixel(200, 200, 200, 0), Pixel(0, 0, 0, 0) }
KeyAlphas == {0, 90, 255}
KeyPixels == { [c EXCEPT !.a = a] : c \in KeyColours, a \in KeyAlphas }

\* The tolerances (slider, 1..100) and the values of soft * 10 (slider, 0..10 in
\* steps of 0.5) a pass may be run with.
KeyTolerances == {1, 15, 20}
KeyRanges == {0, 5, 10, 15, 100}

\* The positions the user moves the Tolerance and Edge Softness sliders to.
Tolerances == {15, 20}
Softnesses == {0, 2}

\* The pass over the ImageData of `keyer` runs.
keyed ==
  /\ keyer # Null
  /\ keyer.pc = "called"
  /\ \E short \in SUBSET { << keyer.data[i].a, SqDist(keyer.data[i]) >> : i \in DOMAIN keyer.data } :
       keyer' = [keyer EXCEPT !.pc = "returned",
                              !.out = keyedData(keyer.data, keyer.tol, keyer.range, short)]
  /\ event' = Ev("pixels_keyed", Null)
  /\ UNCHANGED << panelVars, appVars, zoomVars, tuneVars, tracer, simplifier, tester, samVars >>

\* The pixels getImageData reads after the image decoded from the payload
\* `id` was drawn on a cleared canvas: one of two rasters.
Raster(id) ==
  IF id % 2 = 1
    THEN << Pixel(245, 245, 245, 255), Pixel(200, 200, 200, 255), Pixel(255, 255, 255, 255) >>
    ELSE << Pixel(240, 240, 240, 255), Pixel(255, 255, 235, 90), Pixel(0, 0, 0, 0) >>

\* A pass that keys what the canvas holds from the pass before.
drawnOver(cv, id) == IF cv = Null THEN Raster(id) ELSE cv.data

\* canvas.width = img.width; canvas.height = img.height; ctx.drawImage(img, 0, 0):
\* the assignment clears the canvas, so it holds the image alone.
drawn(cv, id) == Raster(id)

\* c * a / 255 rounded to the nearest whole number, and back: what a channel
\* comes back as after the canvas stored it premultiplied by the alpha a.
Premultiplied(c, a) ==
  LET stored == (2 * c * a + 255) \div (2 * 255)
  IN IF a = 0 THEN 0
     ELSE IF (2 * stored * 255 + a) \div (2 * a) > 255 THEN 255
     ELSE (2 * stored * 255 + a) \div (2 * a)

\* ctx.putImageData(imageData, 0, 0); canvas.toDataURL('image/png'): the pixels
\* of the published PNG.
toDataURL(data) ==
  [i \in DOMAIN data |->
     Pixel(Premultiplied(data[i].r, data[i].a), Premultiplied(data[i].g, data[i].a),
           Premultiplied(data[i].b, data[i].a), data[i].a)]

\* --------------------------------------------------------------- extraction
\* prompt.trim() on the prompts the user types here.
Trim(s) == IF s = " " THEN "" ELSE s

\* The texts typed into a prompt field: nothing, a blank, a description.
Prompts == { "", " ", "the red car" }

\* A button that only honours `disabled`.
ButtonIgnoresLoading(disabled, isLoading) == ~disabled

\* <Button disabled={...} isLoading={...}>: a click reaches onClick unless the
\* button is disabled or shows its loading state.
ButtonAcceptsClick(disabled, isLoading) == ~disabled /\ ~isLoading

\* The `disabled` prop of the Extract button.
extractDisabled ==
  \/ inputMode = "text" /\ Trim(prompt) = ""
  \/ inputMode \in {"draw", "smart"} /\ (polygon = Null \/ ~polygon.isClosed)

\* The number the next extraction's payload is known by.
NextId == MaxAttempts - attemptsLeft + 1

\* An extraction suspended at `await removeBackground(...)` or at
\* `await extractElementFromImage(...)`, with what its closure holds and the
\* rasters on screen when it was started.
AtCollaborator ==
  [id |-> NextId, stage |-> "collaborator", text |-> inputMode = "text",
   keep |-> keepOriginalSize, ok |-> TRUE, white |-> TRUE,
   before |-> << extractedBase64, processedBase64 >>]

\* An extraction suspended at `await new Promise(resolve => segmentImg.onload =
\* resolve)` on its own crop.
AtDecode ==
  [id |-> NextId, stage |-> "decode", text |-> FALSE,
   keep |-> TRUE, ok |-> TRUE, white |-> FALSE,
   before |-> << extractedBase64, processedBase64 >>]

Without(s, k) == [i \in 1..(Len(s) - 1) |-> IF i < k THEN s[i] ELSE s[i + 1]]

\* setExtractedBase64(payload); setRemoveWhite(white), then the effect on
\* [extractedBase64, tolerance, removeWhite, edgeSoftness]: without white
\* removal it publishes the payload as it is (and the effect on
\* [processedBase64] shows the result view), with white removal it starts
\* loading an image whose onload will publish.
\* The image the keying effect loads, with the tolerance and softness of the
\* render the effect belongs to.
Pass(payload, tol, soft) ==
  [id |-> payload.id, ok |-> payload.ok, tol |-> tol, soft |-> soft]

installExtracted(payload, white) ==
  /\ extractedBase64' = payload
  /\ removeWhite' = white
  /\ IF white
       THEN /\ passes' = Append(passes, Pass(payload, tolerance, edgeSoftness))
            /\ UNCHANGED << processedBase64, viewMode >>
       ELSE /\ processedBase64' = [of |-> payload.id, keyed |-> FALSE]
            /\ viewMode' = "result"
            /\ UNCHANGED passes

\* The Extract button's onClick, up to its first await (or to its end when it
\* reaches none).
handleExtract ==
  /\ ~Unmounted
  /\ ButtonAcceptsClick(extractDisabled, loading)
  /\ UNCHANGED << geometryVars, appVars, restVars, prompt, keepOriginalSize,
                  useAIBackgroundRemoval >>
  /\ IF inputMode = "text" /\ Trim(prompt) = "" THEN
       /\ event' = Ev("extract_ignored", Null)
       /\ UNCHANGED << rasterVars, viewMode, removeWhite, loading, error,
                       extractions, passes, attemptsLeft >>
     ELSE IF inputMode \in {"draw", "smart"}
             /\ (polygon = Null \/ ~polygon.isClosed) THEN
       /\ error' = [message |-> "Please select an area first."]
       /\ event' = Ev("extract_rejected", Null)
       /\ UNCHANGED << rasterVars, viewMode, removeWhite, loading,
                       extractions, passes, attemptsLeft >>
     ELSE
       /\ attemptsLeft > 0
       /\ attemptsLeft' = attemptsLeft - 1
       /\ error' = Null
       /\ IF inputMode = "text" \/ useAIBackgroundRemoval THEN
            /\ loading' = TRUE
            /\ extractedBase64' = Null
            /\ processedBase64' = Null
            /\ extractions' = Append(extractions, AtCollaborator)
            /\ event' = Ev("extract_call", Null)
            /\ UNCHANGED << viewMode, removeWhite, passes >>
          ELSE IF keepOriginalSize THEN
            /\ loading' = TRUE
            /\ extractedBase64' = Null
            /\ processedBase64' = Null
            /\ extractions' = Append(extractions, AtDecode)
            /\ event' = Ev("extract_decoding", Null)
            /\ UNCHANGED << viewMode, removeWhite, passes >>
          ELSE
            /\ loading' = FALSE
            /\ installExtracted([id |-> NextId, ok |-> TRUE], FALSE)
            /\ event' = Ev("extract_done", Null)
            /\ UNCHANGED extractions

\* handleExtract from the point where its collaborator call settled: it
\* rejected, or it resolved with a payload that is an image ("image") or is
\* not ("garbage").
collaboratorSettled(k, outcome) ==
  /\ ~Unmounted
  /\ k \in 1..Len(extractions)
  /\ extractions[k].stage = "collaborator"
  /\ UNCHANGED << geometryVars, appVars, restVars, prompt, keepOriginalSize,
                  useAIBackgroundRemoval, attemptsLeft >>
  /\ LET t == extractions[k] IN
     IF outcome = "rejected" THEN
       /\ error' = [message |-> "Failed to extract element."]
       /\ loading' = FALSE
       /\ extractions' = Without(extractions, k)
       /\ event' = Ev("extract_failed", t)
       /\ UNCHANGED << rasterVars, viewMode, removeWhite, passes >>
     ELSE IF ~t.text /\ t.keep THEN
       /\ extractions' = [extractions EXCEPT ![k].stage = "decode",
                                             ![k].ok = (outcome = "image")]
       /\ event' = Ev("extract_decoding", Null)
       /\ UNCHANGED << rasterVars, viewMode, removeWhite, passes, loading, error >>
     ELSE
       /\ installExtracted([id |-> t.id, ok |-> outcome = "image"], TRUE)
       /\ loading' = FALSE
       /\ extractions' = Without(extractions, k)
       /\ event' = Ev("extract_done", t)
       /\ UNCHANGED error

\* handleExtract from the point where segmentImg's load event fired: an image
\* that cannot be decoded fires error instead, which nothing listens to.
segmentDecoded(k) ==
  /\ ~Unmounted
  /\ k \in 1..Len(extractions)
  /\ extractions[k].stage = "decode"
  /\ extractions[k].ok
  /\ installExtracted([id |-> extractions[k].id, ok |-> TRUE], extractions[k].white)
  /\ loading' = FALSE
  /\ extractions' = Without(extractions, k)
  /\ event' = Ev("extract_done", extractions[k])
  /\ UNCHANGED << geometryVars, appVars, restVars, prompt, keepOriginalSize,
                  useAIBackgroundRemoval, attemptsLeft, error >>

\* img.onload of the keying effect: the canvas is keyed and published.
keyPublished(k) ==
  /\ ~Unmounted
  /\ k \in 1..Len(passes)
  /\ passes[k].ok
  /\ LET p == passes[k]
         data == drawn(canvas, p.id)
     IN \E short \in SUBSET { << data[i].a, SqDist(data[i]) >> : i \in DOMAIN data } :
          /\ canvas' = [data |-> keyedData(data, p.tol, p.soft * 10, short)]
          /\ processedBase64' = [of |-> p.id, keyed |-> TRUE,
                                 data |-> toDataURL(canvas'.data)]
  /\ viewMode' = IF processedBase64' # processedBase64 THEN "result" ELSE viewMode
  /\ passes' = Without(passes, k)
  /\ event' = Ev("keyed", [pass |-> passes[k], over |-> canvas])
  /\ UNCHANGED << geometryVars, appVars, zoomVars, libVars, tolerance, edgeSoftness,
                  movesLeft, extractedBase64, prompt,
                  keepOriginalSize, useAIBackgroundRemoval, removeWhite, loading,
                  error, extractions, attemptsLeft >>

\* The effect on [extractedBase64, tolerance, removeWhite, edgeSoftness] after a
\* render in which a setting changed: nothing without an extracted raster, the
\* raster as it is without white removal, a new image to load with it.
keyingEffect(tol, soft, white) ==
  IF extractedBase64 = Null THEN
    UNCHANGED << processedBase64, viewMode, passes >>
  ELSE IF ~white THEN
    /\ processedBase64' = [of |-> extractedBase64.id, keyed |-> FALSE]
    /\ viewMode' = IF processedBase64' # processedBase64 THEN "result" ELSE viewMode
    /\ UNCHANGED passes
  ELSE
    /\ passes' = Append(passes, Pass(extractedBase64, tol, soft))
    /\ UNCHANGED << processedBase64, viewMode >>

\* The Tolerance slider, rendered below a result while white removal is on.
setTolerance(t) ==
  /\ ~Unmounted
  /\ processedBase64 # Null /\ removeWhite
  /\ t # tolerance
  /\ movesLeft > 0
  /\ movesLeft' = movesLeft - 1
  /\ tolerance' = t
  /\ keyingEffect(t, edgeSoftness, removeWhite)
  /\ event' = Ev("tolerance", Null)
  /\ UNCHANGED << geometryVars, appVars, zoomVars, libVars, edgeSoftness, canvas,
                  extractedBase64, prompt, keepOriginalSize, useAIBackgroundRemoval,
                  removeWhite, loading, error, extractions, attemptsLeft >>

\* The Edge Softness slider, rendered with the Tolerance slider.
setEdgeSoftness(s) ==
  /\ ~Unmounted
  /\ processedBase64 # Null /\ removeWhite
  /\ s # edgeSoftness
  /\ movesLeft > 0
  /\ movesLeft' = movesLeft - 1
  /\ edgeSoftness' = s
  /\ keyingEffect(tolerance, s, removeWhite)
  /\ event' = Ev("softness", Null)
  /\ UNCHANGED << geometryVars, appVars, zoomVars, libVars, tolerance, canvas,
                  extractedBase64, prompt, keepOriginalSize, useAIBackgroundRemoval,
                  removeWhite, loading, error, extractions, attemptsLeft >>

\* The "Remove White/BG" checkbox, rendered below a result.
setRemoveWhite(b) ==
  /\ ~Unmounted
  /\ processedBase64 # Null
  /\ b # removeWhite
  /\ movesLeft > 0
  /\ movesLeft' = movesLeft - 1
  /\ removeWhite' = b
  /\ keyingEffect(tolerance, edgeSoftness, b)
  /\ event' = Ev("remove_white", Null)
  /\ UNCHANGED << geometryVars, appVars, zoomVars, libVars, tolerance, edgeSoftness,
                  canvas, extractedBase64, prompt, keepOriginalSize,
                  useAIBackgroundRemoval, loading, error, extractions, attemptsLeft >>

\* onChange of the panel's prompt field, shown in text mode.
setPrompt(p) ==
  /\ ~Unmounted
  /\ inputMode = "text"
  /\ prompt' = p
  /\ event' = Ev("prompt", Null)
  /\ UNCHANGED << geometryVars, appVars, restVars, rasterVars, viewMode, keepOriginalSize,
                  useAIBackgroundRemoval, removeWhite, loading, error,
                  extractions, passes, attemptsLeft >>

\* The "AI background removal" checkbox, shown in the geometric modes.
setUseAIBackgroundRemoval(b) ==
  /\ ~Unmounted
  /\ inputMode # "text"
  /\ useAIBackgroundRemoval' = b
  /\ event' = Ev("option", Null)
  /\ UNCHANGED << geometryVars, appVars, restVars, rasterVars, viewMode, prompt,
                  keepOriginalSize, removeWhite, loading, error, extractions,
                  passes, attemptsLeft >>

\* The "keep original size" checkbox, shown in the geometric modes.
setKeepOriginalSize(b) ==
  /\ ~Unmounted
  /\ inputMode # "text"
  /\ keepOriginalSize' = b
  /\ event' = Ev("option", Null)
  /\ UNCHANGED << geometryVars, appVars, restVars, rasterVars, viewMode, prompt,
                  useAIBackgroundRemoval, removeWhite, loading, error,
                  extractions, passes, attemptsLeft >>

\* ---------------------------------------------------------------------- App
\* The next image (generated or uploaded): a GeneratedImage, known by its id.
NextImage == [id |-> MaxImages - imagesLeft + 1]

Removed(s, id) == SelectSeq(s, LAMBDA img : img # id)

\* onChange of the generation prompt field (disabled while generating), or a
\* click on one of the sample prompts.
setAppPrompt(p) ==
  /\ mode = "GENERATE"
  /\ ~isGenerating
  /\ appPrompt' = p
  /\ event' = Ev("app_prompt", Null)
  /\ UNCHANGED << panelVars, restVars, isGenerating, currentImage, appHistory, mode,
                  appError, generations, imagesLeft >>

\* Enter in the prompt field (the field is disabled while generating) or the
\* Generate button: handleGenerate up to its await.
handleGenerate ==
  /\ mode = "GENERATE"
  /\ ~isGenerating
  /\ IF Trim(appPrompt) = "" THEN
       /\ event' = Ev("generate_ignored", Null)
       /\ UNCHANGED << isGenerating, appError, mode, generations, imagesLeft >>
     ELSE
       /\ imagesLeft > 0
       /\ imagesLeft' = imagesLeft - 1
       /\ isGenerating' = TRUE
       /\ appError' = Null
       /\ mode' = "GENERATE"
       /\ generations' = Append(generations, NextImage)
       /\ event' = Ev("generate_call", Null)
  /\ UNCHANGED << panelVars, restVars, appPrompt, currentImage, appHistory >>

\* handleGenerate from the point where generateImage settled.
generateSettled(k, outcome) ==
  /\ k \in 1..Len(generations)
  /\ IF outcome = "image"
       THEN /\ currentImage' = generations[k]
            /\ appHistory' = << generations[k] >> \o appHistory
            /\ event' = Ev("generate_done", Null)
            /\ UNCHANGED appError
       ELSE /\ appError' = [message |-> "Failed to generate image."]
            /\ event' = Ev("generate_failed", Null)
            /\ UNCHANGED << currentImage, appHistory >>
  /\ isGenerating' = FALSE
  /\ generations' = Without(generations, k)
  /\ UNCHANGED << panelVars, restVars, appPrompt, mode, imagesLeft >>

\* The file input's change event, once the reader has loaded the file.
handleFileUpload ==
  /\ imagesLeft > 0
  /\ imagesLeft' = imagesLeft - 1
  /\ currentImage' = NextImage
  /\ appHistory' = << NextImage >> \o appHistory
  /\ appError' = Null
  /\ event' = Ev("upload", Null)
  /\ UNCHANGED << panelVars, restVars, appPrompt, isGenerating, mode, generations >>

\* A click on a thumbnail of the history strip.
loadFromHistory(img) ==
  /\ \E i \in 1..Len(appHistory) : appHistory[i] = img
  /\ currentImage' = img
  /\ mode' = "GENERATE"
  /\ event' = Ev("load", Null)
  /\ UNCHANGED << panelVars, restVars, appPrompt, isGenerating, appHistory, appError,
                  generations, imagesLeft >>

\* The delete button of a thumbnail.
handleDeleteImage(id) ==
  /\ \E i \in 1..Len(appHistory) : appHistory[i] = id
  /\ appHistory' = Removed(appHistory, id)
  /\ IF currentImage = id
       THEN currentImage' = Null /\ mode' = "GENERATE"
       ELSE UNCHANGED << currentImage, mode >>
  /\ event' = Ev("delete", Null)
  /\ UNCHANGED << panelVars, restVars, appPrompt, isGenerating, appError, generations,
                  imagesLeft >>

\* The Clear button, shown on the current image.
handleClearCurrent ==
  /\ mode = "GENERATE"
  /\ currentImage # Null
  /\ appHistory' = Removed(appHistory, currentImage)
  /\ currentImage' = Null
  /\ mode' = "GENERATE"
  /\ event' = Ev("clear", Null)
  /\ UNCHANGED << panelVars, restVars, appPrompt, isGenerating, appError, generations,
                  imagesLeft >>

\* ------------------------------------------------------ isPointInPolygon
\* Coordinates of the corners of the rectangles tested, and of the points
\* tested against them.
RectCoords == { 0, 1, 3, 10 }
HitCoords == { -1, 0, 1, 2, 3, 5, 10, 15 }

\* The corners of the rectangle [x1, x2] x [y1, y2], starting at corner
\* `first` (0..3), in the order (x1,y1), (x2,y1), (x2,y2), (x1,y2) or in the
\* opposite one.
RectangleFrom(r, first, reversed) ==
  LET c == BoxCorners(r)
      turned == [i \in 1..4 |-> c[((i - 1 + first) % 4) + 1]]
  IN IF reversed THEN [i \in 1..4 |-> turned[5 - i]] ELSE turned

\* The arguments of one call of isPointInPolygon.
HitArguments ==
  { [rect |-> [x1 |-> xa, y1 |-> ya, x2 |-> xb, y2 |-> yb],
     points |-> RectangleFrom([x1 |-> xa, y1 |-> ya, x2 |-> xb, y2 |-> yb],
                              first, reversed),
     p |-> Pt(px, py), pc |-> "called", inside |-> FALSE] :
      xa \in RectCoords, xb \in RectCoords, ya \in RectCoords, yb \in RectCoords,
      first \in 0..3, reversed \in BOOLEAN, px \in HitCoords, py \in HitCoords }

\* The call returns.
hitTested ==
  /\ tester # Null
  /\ tester.pc = "called"
  /\ tester' = [tester EXCEPT !.pc = "returned",
                              !.inside = isPointInPolygon(tester.p, tester.points)]
  /\ event' = Ev("hit_test", Null)
  /\ UNCHANGED << panelVars, appVars, zoomVars, tuneVars, tracer, simplifier, keyer, samVars >>

\* ----------------------------------------------------------- traceContour
\* const dx = [0, 1, 1, 1, 0, -1, -1, -1]; const dy = [-1, -1, 0, 1, 1, 1, 0, -1]
\* (N, NE, E, SE, S, SW, W, NW), indexed from 0.
DirX(d) == << 0, 1, 1, 1, 0, -1, -1, -1 >>[d + 1]
DirY(d) == << -1, -1, 0, 1, 1, 1, 0, -1 >>[d + 1]

\* mask[y * width + x] === 1
Foreground(mask, width, x, y) == mask[y * width + x + 1] = 1

\* A test that accepts every pixel of the mask, foreground or not.
isValidAnyPixel(mask, width, height, tx, ty) ==
  tx >= 0 /\ tx < width /\ ty >= 0 /\ ty < height

\* isValid(tx, ty)
isValid(mask, width, height, tx, ty) ==
  /\ tx >= 0 /\ tx < width /\ ty >= 0 /\ ty < height
  /\ Foreground(mask, width, tx, ty)

\* A start search that runs down the columns, left to right.
FindStartByColumns(mask, width, height) ==
  LET fg == { i \in 0..(width * height - 1) : mask[i + 1] = 1 }
      i0 == CHOOSE i \in fg :
              \A j \in fg : (i % width) * height + (i \div width)
                              <= (j % width) * height + (j \div width)
  IN IF fg = {} THEN Null ELSE Pt(i0 % width, i0 \div width)

\* The two loops `for y ... for x ...` that stop at the first pixel that is 1:
\* Null when there is none (startX === -1).
FindStart(mask, width, height) ==
  LET fg == { i \in 0..(width * height - 1) : mask[i + 1] = 1 }
      i0 == CHOOSE i \in fg : \A j \in fg : i <= j
  IN IF fg = {} THEN Null ELSE Pt(i0 % width, i0 \div width)

\* An iteration counter that is never advanced.
countedNever(count) == count

\* count++
counted(count) == count + 1

\* A scan that starts two steps clockwise of the direction of arrival.
checkDirAhead(dir, i) == (dir + 2 + i) % 8

\* const checkDir = (dir + 6 + i) % 8
checkDir(dir, i) == (dir + 6 + i) % 8

\* const maxIter = width * height * 2
maxIter(width, height) == width * height * 2

\* traceContour(mask, width, height) up to its do-while loop (or to its return
\* for a mask without foreground).  `rect` is the rectangle the mask was filled
\* from, when it was.
traceContour(mask, width, height, rect) ==
  LET start == FindStart(mask, width, height) IN
  IF start = Null
    THEN [mask |-> mask, width |-> width, height |-> height, rect |-> rect,
          start |-> Null, x |-> -1, y |-> -1, dir |-> 0, count |-> 0,
          points |-> << >>, pc |-> "returned", why |-> "empty"]
    ELSE [mask |-> mask, width |-> width, height |-> height, rect |-> rect,
          start |-> start, x |-> start.x, y |-> start.y, dir |-> 0, count |-> 0,
          points |-> << start >>, pc |-> "walk", why |-> "walking"]

\* One pass through the body of the do-while loop and its `while` test.
traceStep ==
  /\ tracer # Null
  /\ tracer.pc = "walk"
  /\ LET t == tracer
         found == { i \in 0..7 :
                      isValid(t.mask, t.width, t.height,
                              t.x + DirX(checkDir(t.dir, i)),
                              t.y + DirY(checkDir(t.dir, i))) }
         i0 == CHOOSE i \in found : \A j \in found : i <= j
         d == checkDir(t.dir, i0)
         nx == t.x + DirX(d)
         ny == t.y + DirY(d)
     IN
     IF found = {}
       THEN tracer' = [t EXCEPT !.pc = "returned", !.why = "no_neighbour"]
       ELSE tracer' =
              [t EXCEPT !.x = nx, !.y = ny, !.dir = d,
                        !.points = Append(t.points, Pt(nx, ny)),
                        !.count = counted(t.count),
                        !.pc = IF (nx = t.start.x /\ ny = t.start.y)
                                  \/ ~(counted(t.count) < maxIter(t.width, t.height))
                                 THEN "returned" ELSE "walk",
                        !.why = IF nx = t.start.x /\ ny = t.start.y THEN "start"
                                ELSE IF ~(counted(t.count) < maxIter(t.width, t.height))
                                  THEN "cap" ELSE "walking"]
  /\ event' = Ev("trace_step", Null)
  /\ UNCHANGED << panelVars, appVars, zoomVars, tuneVars, simplifier, tester, keyer, samVars >>

\* Every mask of the given size.
Masks(width, height) == [1..(width * height) -> {0, 1}]

\* The mask of the given size whose foreground is the filled rectangle r.
FilledRectangle(width, height, r) ==
  [i \in 1..(width * height) |->
     IF /\ r.x1 <= (i - 1) % width /\ (i - 1) % width <= r.x2
        /\ r.y1 <= (i - 1) \div width /\ (i - 1) \div width <= r.y2
       THEN 1 ELSE 0]

\* The rectangles of at least 3 x 3 pixels that fit into a mask of the given
\* size, by their first and last column and row.
Rectangles(width, height) ==
  { r \in [x1 : 0..(width - 1), y1 : 0..(height - 1),
           x2 : 0..(width - 1), y2 : 0..(height - 1)] :
      r.x2 - r.x1 >= 2 /\ r.y2 - r.y1 >= 2 }

\* --------------------------------------------------------- simplifyPolygon
\* Squared distances are kept exact, as a fraction num / den with den > 0.
Fraction(num, den) == [num |-> num, den |-> den]

\* a > b for two such fractions.
Greater(a, b) == a.num * b.den > b.num * a.den

\* The squared distance of p to the line through p1 and p2, whether or not the
\* foot of the perpendicular lies between them.
getSqLineDist(p, p1, p2) ==
  LET dx == p2.x - p1.x
      dy == p2.y - p1.y
      cross == (p.x - p1.x) * dy - (p.y - p1.y) * dx
  IN IF dx = 0 /\ dy = 0
       THEN Fraction((p.x - p1.x) * (p.x - p1.x) + (p.y - p1.y) * (p.y - p1.y), 1)
       ELSE Fraction(cross * cross, dx * dx + dy * dy)

\* getSqSegDist(p, p1, p2): t = dot / len2 is the position of the foot of the
\* perpendicular; t > 1 measures from p2, 0 < t <= 1 from the foot
\* (p1 + t * d, at squared distance cross^2 / len2), and t <= 0, or p1 = p2,
\* from p1.
getSqSegDist(p, p1, p2) ==
  LET dx == p2.x - p1.x
      dy == p2.y - p1.y
      len2 == dx * dx + dy * dy
      dot == (p.x - p1.x) * dx + (p.y - p1.y) * dy
      cross == (p.x - p1.x) * dy - (p.y - p1.y) * dx
  IN IF (dx # 0 \/ dy # 0) /\ dot > len2
       THEN Fraction((p.x - p2.x) * (p.x - p2.x) + (p.y - p2.y) * (p.y - p2.y), 1)
     ELSE IF (dx # 0 \/ dy # 0) /\ dot > 0
       THEN Fraction(cross * cross, len2)
     ELSE Fraction((p.x - p1.x) * (p.x - p1.x) + (p.y - p1.y) * (p.y - p1.y), 1)

\* simplifyPolygon(points, tolerance).  The loop leaves in `index` the first
\* interior point at the greatest distance from the chord, and in maxSqDist
\* that distance (0 and index 0 when no interior point is off the chord).
RECURSIVE simplifyPolygon(_, _)
simplifyPolygon(points, tol) ==
  IF Len(points) <= 2 THEN points
  ELSE
    LET end == Len(points)
        sqDist(i) == getSqSegDist(points[i], points[1], points[end])
        index == CHOOSE i \in 2..(end - 1) :
                   \A j \in 2..(end - 1) :
                     /\ ~Greater(sqDist(j), sqDist(i))
                     /\ j < i => Greater(sqDist(i), sqDist(j))
        maxSqDist == sqDist(index)
    IN IF Greater(maxSqDist, Fraction(tol * tol, 1))
         THEN LET left == simplifyPolygon(SubSeq(points, 1, index), tol)
                  right == simplifyPolygon(SubSeq(points, index, end), tol)
              IN SubSeq(left, 1, Len(left) - 1) \o right
         ELSE << points[1], points[end] >>

\* The point sequences of up to MaxPoints points on the grid 0..MaxGrid.
PointSequences ==
  UNION { [1..n -> { Pt(x, y) : x \in 0..MaxGrid, y \in 0..MaxGrid }] : n \in 0..MaxPoints }

\* A call of simplifyPolygon returns.
simplified ==
  /\ simplifier # Null
  /\ simplifier.pc = "called"
  /\ simplifier' = [simplifier EXCEPT
                      !.pc = "returned",
                      !.out = simplifyPolygon(simplifier.points, simplifier.tolerance)]
  /\ event' = Ev("simplified", Null)
  /\ UNCHANGED << panelVars, appVars, zoomVars, tuneVars, tracer, tester, keyer, samVars >>

\* -------------------------------------------------------------- zoom, fit
\* The fraction num / den (den > 0) in lowest terms.
Reduced(num, den) ==
  LET g == Gcd(IF num < 0 THEN -num ELSE num, den)
  IN Fraction(num \div g, den \div g)

\* a + b, a - b and a * b for fractions.
Plus(a, b) == Reduced(a.num * b.den + b.num * a.den, a.den * b.den)
Minus(a, b) == Reduced(a.num * b.den - b.num * a.den, a.den * b.den)
Times(a, b) == Reduced(a.num * b.num, a.den * b.den)

\* a / b for b > 0.
Over(a, b) == Reduced(a.num * b.den, a.den * b.num)

\* A whole number of pixels as a fraction.
Whole(n) == Fraction(n, 1)

\* useState(1) and useState<Point>({ x: 0, y: 0 })
InitialScale == Fraction(1, 1)
InitialOffset == Pt(Whole(0), Whole(0))

\* Math.max(0.1, Math.min(5, s))
clampScale(s) ==
  IF s.num > 5 * s.den THEN Fraction(5, 1)
  ELSE IF 10 * s.num < s.den THEN Fraction(1, 10)
  ELSE s

\* (vx - offset.x) / scale and (vy - offset.y) / scale for the point e of the
\* visible area, exactly.
toImageSpace(e, s, o) ==
  Pt(Over(Minus(Whole(e.x), o.x), s), Over(Minus(Whole(e.y), o.y), s))

\* mouse - (mouse - prevOffset) * (newScale / prev), per coordinate.
zoomedOffset(m, o, newScale, prev) ==
  Pt(Minus(Whole(m.x), Times(Minus(Whole(m.x), o.x), Over(newScale, prev))),
     Minus(Whole(m.y), Times(Minus(Whole(m.y), o.y), Over(newScale, prev))))

\* handleImageLoad and resetView: fitScale and the centred offset; the sizes of
\* ViewImageSizes divide evenly.
fitted(img) == Pt(Whole(FitOffset(img).x), Whole(FitOffset(img).y))

\* handleZoom(delta, center): the updater passed to setScale clamps prev + delta
\* and, from inside, sets the offset about `center`, or about the centre of the
\* visible area when there is none and imgDimensions is set; with neither, the
\* offset stays.
handleZoom(delta, center) ==
  LET prev == scale
      newScale == clampScale(Plus(prev, delta))
      centre == Pt(ClientSize.w \div 2, ClientSize.h \div 2)
  IN
  /\ zoomsLeft > 0
  /\ zoomsLeft' = zoomsLeft - 1
  /\ scale' = newScale
  /\ offset' = IF center # Null THEN zoomedOffset(center, offset, newScale, prev)
               ELSE IF imgDimensions # Null
                 THEN zoomedOffset(centre, offset, newScale, prev)
               ELSE offset
  /\ UNCHANGED << imgDimensions, isPanning, panStart, inputMode, polygon, histVars,
                  dragVars, smartVars, mouseHeld, keysLeft, gesture, run,
                  rasterVars, viewMode, taskVars, appVars, tuneVars, libVars >>

\* The "Zoom In" and "Zoom Out" buttons: handleZoom(0.1), handleZoom(-0.1).
zoomButton(sign) ==
  /\ handleZoom(Fraction(sign, 10), Null)
  /\ event' = Ev(IF sign > 0 THEN "zoom_in" ELSE "zoom_out", Null)

\* handleWheel: delta = -e.deltaY * 0.001 * scale, zooming about the pointer.
handleWheel(deltaY, e) ==
  /\ handleZoom(Times(Reduced(-deltaY, 1000), scale), e)
  /\ event' = Ev("wheel", e)

\* handleImageLoad: the image's load event.
handleImageLoad(img) ==
  /\ imgDimensions = Null
  /\ imgDimensions' = img
  /\ scale' = FitScale(img)
  /\ offset' = fitted(img)
  /\ event' = Ev("image_load", Null)
  /\ UNCHANGED << zoomsLeft, isPanning, panStart, inputMode, polygon, histVars,
                  dragVars, smartVars, mouseHeld, keysLeft, gesture, run,
                  rasterVars, viewMode, taskVars, appVars, tuneVars, libVars >>

\* resetView ("Fit to Screen"), which does nothing before the image has loaded.
resetView ==
  /\ imgDimensions # Null
  /\ scale' = FitScale(imgDimensions)
  /\ offset' = fitted(imgDimensions)
  /\ event' = Ev("reset_view", Null)
  /\ UNCHANGED << zoomVars, isPanning, panStart, inputMode, polygon, histVars,
                  dragVars, smartVars, mouseHeld, keysLeft, gesture, run,
                  rasterVars, viewMode, taskVars, appVars, tuneVars, libVars >>

\* ---------------------------------------------------- segmentationService
\* What SamModel.from_pretrained and AutoProcessor.from_pretrained resolve with.
Loaded == [id |-> "Xenova/sam-vit-b"]

\* The number the next call of the service is known by.
NextCall == MaxLoads - loadsLeft + 1

\* A guard that looks at the model alone.
returnsAtOnceIfLoaded(m, busy) == m # Null

\* if (model || isModelLoading) return;
returnsAtOnce(m, busy) == m # Null \/ busy

\* preloadModel(), up to its first await or to its return.  `seg` says whether
\* segmentObject made the call.
preloadModel(seg) ==
  IF returnsAtOnce(model, isModelLoading)
    THEN UNCHANGED << model, processor, isModelLoading, preloads >>
    ELSE /\ isModelLoading' = TRUE
         /\ preloads' = Append(preloads, [id |-> NextCall, pc |-> "model", seg |-> seg])
         /\ UNCHANGED << model, processor >>

\* A caller other than segmentObject calls preloadModel.
preloadCalled ==
  /\ loadsLeft > 0
  /\ loadsLeft' = loadsLeft - 1
  /\ preloadModel(FALSE)
  /\ event' = IF returnsAtOnce(model, isModelLoading)
                THEN Ev("preload_resolved", [id |-> NextCall, seg |-> FALSE,
                                             overlapped |-> isModelLoading])
                ELSE Ev("preload_started", Null)
  /\ UNCHANGED << panelVars, appVars, zoomVars, tuneVars, tracer, simplifier,
                  tester, keyer, segments >>

\* segmentObject(imageUrl, box), up to its first await that does not resolve at
\* once.  With model and processor it goes on to the inference.  Without, it
\* awaits preloadModel(); when that returns at once the test of line 53 throws
\* and the catch resolves the call with the corners of the box.
segmentCalled ==
  /\ loadsLeft > 0
  /\ loadsLeft' = loadsLeft - 1
  /\ IF model # Null /\ processor # Null THEN
       /\ segments' = Append(segments, [id |-> NextCall, pc |-> "inference"])
       /\ event' = Ev("segment_started", Null)
       /\ UNCHANGED << model, processor, isModelLoading, preloads >>
     ELSE
       /\ preloadModel(TRUE)
       /\ IF returnsAtOnce(model, isModelLoading)
            THEN /\ event' = Ev("segment_resolved",
                                [id |-> NextCall, result |-> "box",
                                 overlapped |-> isModelLoading])
                 /\ UNCHANGED segments
            ELSE /\ segments' = Append(segments, [id |-> NextCall, pc |-> "preload"])
                 /\ event' = Ev("preload_started", Null)
  /\ UNCHANGED << panelVars, appVars, zoomVars, tuneVars, tracer, simplifier,
                  tester, keyer >>

\* The segmentObject calls but the one known by id.
Others(id) == SelectSeq(segments, LAMBDA s : s.id # id)

\* The segmentObject calls after the preloadModel awaited by the call `id`
\* resolved: model and processor are tested again and the inference begins.
Continued(id) ==
  [i \in 1..Len(segments) |->
     IF segments[i].id = id THEN [segments[i] EXCEPT !.pc = "inference"]
                            ELSE segments[i]]

\* preloadModel from the point where SamModel.from_pretrained settled.  A
\* rejection runs the catch and the finally and rejects the call; when
\* segmentObject awaits it, its catch resolves with the corners of the box.
modelSettled(k, ok) ==
  /\ k \in 1..Len(preloads)
  /\ preloads[k].pc = "model"
  /\ IF ok THEN
       /\ model' = Loaded
       /\ preloads' = [preloads EXCEPT ![k].pc = "processor"]
       /\ event' = Ev("model_loaded", Null)
       /\ UNCHANGED << processor, isModelLoading, segments >>
     ELSE
       /\ isModelLoading' = FALSE
       /\ preloads' = Without(preloads, k)
       /\ segments' = Others(preloads[k].id)
       /\ event' = IF preloads[k].seg
                     THEN Ev("segment_resolved", [id |-> preloads[k].id, result |-> "box",
                                                  overlapped |-> FALSE])
                     ELSE Ev("preload_rejected", Null)
       /\ UNCHANGED << model, processor >>
  /\ UNCHANGED << panelVars, appVars, zoomVars, tuneVars, tracer, simplifier,
                  tester, keyer, loadsLeft >>

\* preloadModel from the point where AutoProcessor.from_pretrained settled.
processorSettled(k, ok) ==
  /\ k \in 1..Len(preloads)
  /\ preloads[k].pc = "processor"
  /\ isModelLoading' = FALSE
  /\ preloads' = Without(preloads, k)
  /\ IF ok THEN
       /\ processor' = Loaded
       /\ segments' = Continued(preloads[k].id)
       /\ event' = Ev("preload_resolved", [id |-> preloads[k].id, seg |-> preloads[k].seg,
                                           overlapped |-> FALSE])
     ELSE
       /\ segments' = Others(preloads[k].id)
       /\ event' = IF preloads[k].seg
                     THEN Ev("segment_resolved", [id |-> preloads[k].id, result |-> "box",
                                                  overlapped |-> FALSE])
                     ELSE Ev("preload_rejected", Null)
       /\ UNCHANGED processor
  /\ UNCHANGED << panelVars, appVars, zoomVars, tuneVars, tracer, simplifier,
                  tester, keyer, model, loadsLeft >>

\* segmentObject from the point where its inference settled: with the traced
\* contour, or through the catch with the corners of the box.
inferenceSettled(k, ok) ==
  /\ k \in 1..Len(segments)
  /\ segments[k].pc = "inference"
  /\ segments' = Without(segments, k)
  /\ event' = Ev("segment_resolved",
                 [id |-> segments[k].id, result |-> IF ok THEN "contour" ELSE "box",
                  overlapped |-> FALSE])
  /\ UNCHANGED << panelVars, appVars, zoomVars, tuneVars, tracer, simplifier,
                  tester, keyer, model, processor, isModelLoading, preloads, loadsLeft >>

\* ------------------------------------------------------------ specification
MouseDown == \E e \in PointerSet : handleMouseDown(e)
MouseMove == \E e \in PointerSet : handleWindowMouseMove(e)
MouseUp == handleWindowMouseUp
Undo == handleUndo
Redo == handleRedo
Reset == handleResetPolygon
Mode == \E m \in {"text", "draw", "smart"} : setInputMode(m)
Segmented == \E k \in 1..Len(calls) :
               \E points \in segmentObject(calls[k].box) : segmentResolved(k, points)

Next ==
  \/ MouseDown
  \/ MouseMove
  \/ MouseUp
  \/ Undo
  \/ Redo
  \/ Reset
  \/ Mode
  \/ Segmented

Spec == Init /\ [][Next]_vars

\* The pen tool alone: the Smart button is never pressed, so no segmentation
\* call is made.
ModePen == \E m \in {"text", "draw"} : setInputMode(m)

NextPen ==
  \/ MouseDown
  \/ MouseMove
  \/ MouseUp
  \/ Undo
  \/ Redo
  \/ Reset
  \/ ModePen

SpecPen == InitPen /\ [][NextPen]_vars

\* The pen session from the point where the user has clicked the three vertices
\* of a triangle (three appends from the mounted panel, in pen mode) and
\* released, or has then also closed the triangle by a click on its first
\* vertex and released.
Triangle(closed) ==
  Poly(<< getMousePosInImageSpace(Pt(20, 20)), getMousePosInImageSpace(Pt(50, 20)),
          getMousePosInImageSpace(Pt(20, 50)) >>, closed)

InitDrawn ==
  /\ inputMode = "draw"
  /\ \E img \in ImageSizes :
       /\ scale = FitScale(img)
       /\ offset = FitOffset(img)
       /\ imgDimensions = img
  /\ isPanning = FALSE
  /\ panStart = Null
  /\ \E closed \in BOOLEAN :
       /\ polygon = Triangle(closed)
       /\ history =
            << Null,
               Poly(SubSeq(Triangle(FALSE).points, 1, 1), FALSE),
               Poly(SubSeq(Triangle(FALSE).points, 1, 2), FALSE) >>
            \o (IF closed THEN << Triangle(FALSE) >> ELSE << >>)
  /\ future = << >>
  /\ draggedPointIndex = NoIndex
  /\ isDraggingPolygon = FALSE
  /\ dragStartPos = Null
  /\ selectionBox = Null
  /\ isSegmenting = FALSE
  /\ dragStartBoxPos = Null
  /\ calls = << >>
  /\ mouseHeld = FALSE
  /\ event = Ev("up", Null)
  /\ gesture = Null
  /\ run = NoRun
  /\ editsLeft = MaxDrawnEdits
  /\ keysLeft = MaxKeys
  /\ callsLeft = 0
  /\ PanelIdle
  /\ AppExtracting
  /\ attemptsLeft = 0
  /\ zoomsLeft = 0
  /\ movesLeft = 0

SpecDrawn == InitDrawn /\ [][NextPen]_vars

\* The side panel alone, from the point where the user has drawn and closed a
\* triangle with the pen: extraction, its options, the prompt, the mode buttons,
\* reset, undo and redo.
InitExtract ==
  /\ inputMode = "draw"
  /\ \E img \in ImageSizes :
       /\ scale = FitScale(img)
       /\ offset = FitOffset(img)
       /\ imgDimensions = img
  /\ isPanning = FALSE
  /\ panStart = Null
  /\ polygon = Triangle(TRUE)
  /\ history =
       << Null,
          Poly(SubSeq(Triangle(FALSE).points, 1, 1), FALSE),
          Poly(SubSeq(Triangle(FALSE).points, 1, 2), FALSE),
          Triangle(FALSE) >>
  /\ future = << >>
  /\ draggedPointIndex = NoIndex
  /\ isDraggingPolygon = FALSE
  /\ dragStartPos = Null
  /\ selectionBox = Null
  /\ isSegmenting = FALSE
  /\ dragStartBoxPos = Null
  /\ calls = << >>
  /\ mouseHeld = FALSE
  /\ event = Ev("up", Null)
  /\ gesture = Null
  /\ run = NoRun
  /\ editsLeft = MaxDrawnEdits
  /\ keysLeft = 0
  /\ callsLeft = 0
  /\ PanelIdle
  /\ AppExtracting
  /\ attemptsLeft = MaxAttempts
  /\ zoomsLeft = 0
  /\ movesLeft = 0

Extract == handleExtract
Settled == \E k \in 1..Len(extractions) :
             \E outcome \in {"image", "garbage", "rejected"} :
               collaboratorSettled(k, outcome)
Decoded == \E k \in 1..Len(extractions) : segmentDecoded(k)
Keyed == \E k \in 1..Len(passes) : keyPublished(k)
Prompt == \E p \in Prompts : setPrompt(p)
OptionAI == \E b \in BOOLEAN : setUseAIBackgroundRemoval(b)
OptionKeep == \E b \in BOOLEAN : setKeepOriginalSize(b)

NextExtract ==
  \/ Extract
  \/ Settled
  \/ Decoded
  \/ Keyed
  \/ Prompt
  \/ OptionAI
  \/ OptionKeep
  \/ Reset
  \/ ModePen
  \/ Undo
  \/ Redo

SpecExtract == InitExtract /\ [][NextExtract]_vars

\* The panel is not rendered: none of its state exists.
NotRendered ==
  /\ inputMode = Null
  /\ scale = Null
  /\ offset = Null
  /\ isPanning = Null
  /\ panStart = Null
  /\ polygon = Null
  /\ history = Null
  /\ future = Null
  /\ draggedPointIndex = Null
  /\ isDraggingPolygon = Null
  /\ dragStartPos = Null
  /\ selectionBox = Null
  /\ isSegmenting = Null
  /\ dragStartBoxPos = Null
  /\ calls = Null
  /\ callsLeft = Null
  /\ mouseHeld = Null
  /\ editsLeft = Null
  /\ keysLeft = Null
  /\ gesture = Null
  /\ run = Null
  /\ viewMode = Null
  /\ prompt = Null
  /\ keepOriginalSize = Null
  /\ useAIBackgroundRemoval = Null
  /\ removeWhite = Null
  /\ extractedBase64 = Null
  /\ processedBase64 = Null
  /\ loading = Null
  /\ error = Null
  /\ extractions = Null
  /\ passes = Null
  /\ attemptsLeft = Null
  /\ imgDimensions = Null
  /\ zoomsLeft = Null
  /\ tolerance = Null
  /\ edgeSoftness = Null
  /\ movesLeft = Null
  /\ canvas = Null

\* The generation screen: App as mounted, before any image exists.  The panel
\* is not rendered (none of its state exists) and the user never opens it.
InitApp ==
  /\ appPrompt = ""
  /\ isGenerating = FALSE
  /\ currentImage = Null
  /\ appHistory = << >>
  /\ mode = "GENERATE"
  /\ appError = Null
  /\ generations = << >>
  /\ imagesLeft = MaxImages
  /\ NotRendered
  /\ NoCall
  /\ event = Ev("mount", Null)

AppPrompt == \E p \in Prompts : setAppPrompt(p)
Generate == handleGenerate
Generated == \E k \in 1..Len(generations) :
               \E outcome \in {"image", "rejected"} : generateSettled(k, outcome)
Upload == handleFileUpload
Load == \E n \in 1..MaxImages : loadFromHistory([id |-> n])
Delete == \E n \in 1..MaxImages : handleDeleteImage([id |-> n])
Clear == handleClearCurrent

NextApp ==
  \/ AppPrompt
  \/ Generate
  \/ Generated
  \/ Upload
  \/ Load
  \/ Delete
  \/ Clear

SpecApp == InitApp /\ [][NextApp]_vars

\* No part of the user interface exists: a function of the services or of the
\* panel is exercised on its own.
NoUI ==
  /\ NotRendered
  /\ appPrompt = Null
  /\ isGenerating = Null
  /\ currentImage = Null
  /\ appHistory = Null
  /\ mode = Null
  /\ appError = Null
  /\ generations = Null
  /\ imagesLeft = Null
  /\ event = Ev("mount", Null)

\* isPointInPolygon on its own: called with a rectangle and a point.
InitHit ==
  /\ NoUI
  /\ ServiceIdle
  /\ keyer = Null
  /\ tracer = Null
  /\ simplifier = Null
  /\ tester \in { a \in HitArguments : a.rect.x1 < a.rect.x2 /\ a.rect.y1 < a.rect.y2 }

HitTested == hitTested

NextHit ==
  \/ HitTested

SpecHit == InitHit /\ [][NextHit]_vars

\* traceContour on its own: called with any mask of up to MaxMaskSide pixels a
\* side, or with a filled rectangle in a mask of up to MaxFieldSide a side.
InitTrace ==
  /\ NoUI
  /\ ServiceIdle
  /\ keyer = Null
  /\ simplifier = Null
  /\ tester = Null
  /\ \/ \E width \in 1..MaxMaskSide, height \in 1..MaxMaskSide :
          \E mask \in Masks(width, height) :
            tracer = traceContour(mask, width, height, Null)
     \/ \E width \in 3..MaxFieldSide, height \in 3..MaxFieldSide :
          \E r \in Rectangles(width, height) :
            tracer = traceContour(FilledRectangle(width, height, r), width, height, r)

TraceStep == traceStep

NextTrace ==
  \/ TraceStep

SpecTrace == InitTrace /\ [][NextTrace]_vars

\* simplifyPolygon on its own: called with any sequence of PointSequences and a
\* tolerance of 1..MaxTolerance.
InitSimplify ==
  /\ NoUI
  /\ ServiceIdle
  /\ keyer = Null
  /\ tracer = Null
  /\ tester = Null
  /\ \E points \in PointSequences, tol \in 1..MaxTolerance :
       simplifier = [points |-> points, tolerance |-> tol, pc |-> "called", out |-> << >>]

Simplified == simplified

NextSimplify ==
  \/ Simplified

SpecSimplify == InitSimplify /\ [][NextSimplify]_vars

\* The panel as mounted, before the image's load event: the user zooms up to
\* MaxZooms times with the buttons and the wheel and fits the view; the image,
\* of one of ViewImageSizes, loads at some moment.  Offsets are exact fractions
\* here.
InitView ==
  /\ PanelIdle
  /\ AppExtracting
  /\ inputMode = "text"
  /\ scale = InitialScale
  /\ offset = InitialOffset
  /\ imgDimensions = Null
  /\ isPanning = FALSE
  /\ panStart = Null
  /\ polygon = Null
  /\ history = << >>
  /\ future = << >>
  /\ draggedPointIndex = NoIndex
  /\ isDraggingPolygon = FALSE
  /\ dragStartPos = Null
  /\ selectionBox = Null
  /\ isSegmenting = FALSE
  /\ dragStartBoxPos = Null
  /\ calls = << >>
  /\ mouseHeld = FALSE
  /\ event = Ev("mount", Null)
  /\ gesture = Null
  /\ run = NoRun
  /\ editsLeft = 0 /\ keysLeft = 0 /\ callsLeft = 0
  /\ attemptsLeft = 0
  /\ zoomsLeft = MaxZooms
  /\ movesLeft = 0

ImageLoaded == \E img \in ViewImageSizes : handleImageLoad(img)
ZoomIn == zoomButton(1)
ZoomOut == zoomButton(-1)
Wheel == \E deltaY \in WheelDeltas, e \in WheelAnchors : handleWheel(deltaY, e)
ResetView == resetView

NextView ==
  \/ ImageLoaded
  \/ ZoomIn
  \/ ZoomOut
  \/ Wheel
  \/ ResetView

SpecView == InitView /\ [][NextView]_vars

\* The pixel loop on its own: run on an ImageData of two pixels of KeyPixels
\* with a tolerance of KeyTolerances and a soft * 10 of KeyRanges.
InitKey ==
  /\ NoUI
  /\ ServiceIdle
  /\ tracer = Null
  /\ simplifier = Null
  /\ tester = Null
  /\ \E p \in KeyPixels, q \in KeyPixels, tol \in KeyTolerances, range \in KeyRanges :
       keyer = [data |-> << p, q >>, tol |-> tol, range |-> range,
                pc |-> "called", out |-> << >>]

PixelsKeyed == keyed

NextKey ==
  \/ PixelsKeyed

SpecKey == InitKey /\ [][NextKey]_vars

\* The panel in text mode with one extraction to make: the user types a prompt,
\* extracts, and then moves the sliders and the checkbox MaxMoves times.
InitKeying ==
  /\ Opened
  /\ editsLeft = 0 /\ keysLeft = 0 /\ callsLeft = 0
  /\ attemptsLeft = 1
  /\ zoomsLeft = 0
  /\ movesLeft = MaxMoves

Tolerance == \E t \in Tolerances : setTolerance(t)
Softness == \E s \in Softnesses : setEdgeSoftness(s)
White == \E b \in BOOLEAN : setRemoveWhite(b)

NextKeying ==
  \/ Prompt
  \/ Extract
  \/ Settled
  \/ Keyed
  \/ Tolerance
  \/ Softness
  \/ White

SpecKeying == InitKeying /\ [][NextKeying]_vars

\* segmentationService on its own: MaxLoads calls of preloadModel and of
\* segmentObject, made at any moment; every load succeeds or fails.
InitSam ==
  /\ NoUI
  /\ tracer = Null
  /\ simplifier = Null
  /\ tester = Null
  /\ keyer = Null
  /\ model = Null
  /\ processor = Null
  /\ isModelLoading = FALSE
  /\ preloads = << >>
  /\ segments = << >>
  /\ loadsLeft = MaxLoads

PreloadCalled == preloadCalled
SegmentCalled == segmentCalled
ModelSettled == \E k \in 1..Len(preloads), ok \in BOOLEAN : modelSettled(k, ok)
ProcessorSettled == \E k \in 1..Len(preloads), ok \in BOOLEAN : processorSettled(k, ok)
InferenceSettled == \E k \in 1..Len(segments), ok \in BOOLEAN : inferenceSettled(k, ok)

NextSam ==
  \/ PreloadCalled
  \/ SegmentCalled
  \/ ModelSettled
  \/ ProcessorSettled
  \/ InferenceSettled

SpecSam == InitSam /\ [][NextSam]_vars

\* ------------------------------------------------------------------ claims
\* The step is a pointer-down on the viewport.
PointerDown == ~mouseHeld /\ mouseHeld'

\* The image-space point of the pointer event of the step.
StepPos == getMousePosInImageSpace(event'.e)

\* The image-space point of the pointer event before the step.
PrevPos == getMousePosInImageSpace(event.e)

\* The current polygon and every snapshot of the two stacks.
Shapes ==
  { p \in {polygon} \cup { history[i] : i \in 1..Len(history) }
                    \cup { future[i] : i \in 1..Len(future) } : p # Null }

\* The box of p is the exact extent of the points p holds.
BoxIsExact(p) ==
  LET xs == { p.points[i].x : i \in { k \in 1..Len(p.points) : p.points[k] # Hole } }
      ys == { p.points[i].y : i \in { k \in 1..Len(p.points) : p.points[k] # Hole } }
      b  == p.boundingBox
  IN /\ b.x \in xs /\ \A v \in xs : b.x <= v
     /\ b.y \in ys /\ \A v \in ys : b.y <= v
     /\ (b.x + b.w) \in xs /\ \A v \in xs : v <= b.x + b.w
     /\ (b.y + b.h) \in ys /\ \A v \in ys : v <= b.y + b.h

\* C1: an undo with an empty undo stack changes neither the polygon nor a
\* stack; any other undo removes the newest snapshot from the undo stack,
\* makes it the polygon, and puts the polygon that was current on top of the
\* redo stack.  A redo is the mirror image, with the two stacks swapped.
C1_UndoRedoContract ==
  [][ /\ event'.op \in {"undo", "undo_noop"} =>
           IF history = << >>
             THEN UNCHANGED << polygon, history, future >>
             ELSE /\ history' \o << polygon' >> = history
                  /\ future' = << polygon >> \o future
      /\ event'.op \in {"redo", "redo_noop"} =>
           IF future = << >>
             THEN UNCHANGED << polygon, history, future >>
             ELSE /\ << polygon' >> \o future' = future
                  /\ history' = history \o << polygon >> ]_vars

\* A redo was just made, between two non-empty stacks.
C1_Witness ==
  /\ event.op = "redo"
  /\ polygon # Null
  /\ history # << >>
  /\ future # << >>

\* C2: a pointer-down of the pen that changes the polygon (append, close) or
\* begins a vertex drag or a shape drag pushes exactly one snapshot, the
\* polygon as it was before the pointer-down, and leaves the redo stack empty.
C2_EditPushesSnapshot ==
  [][ ( /\ PointerDown
        /\ inputMode = "draw"
        /\ \/ polygon' # polygon
           \/ draggedPointIndex' # NoIndex
           \/ isDraggingPolygon' )
      => /\ history' = Append(history, polygon)
         /\ future' = << >> ]_vars

\* A vertex was appended after two undos had filled the redo stack.
C2_Witness ==
  /\ event.op = "append"
  /\ Len(history) = 2
  /\ history[2] # Null
  /\ polygon.points # history[2].points
  /\ future = << >>

\* C3, as amended: after N undos followed by N redos the polygon is the one
\* that was current before the first of the undos.
C3_UndosThenRedosRestore ==
  (run.undos > 0 /\ run.redos = run.undos) => polygon = run.before

\* C3, as stated: after N undos followed by N redos the polygon is the one
\* that was current before the first of the redos.
C3_AsStated ==
  (run.undos > 0 /\ run.redos = run.undos) => polygon = run.mid

\* Two undos, then two redos, between polygons that differ.
C3_Witness ==
  /\ run.undos = 2
  /\ run.redos = 2
  /\ run.mid # run.before
  /\ polygon = run.before

\* C4: the pointer-down that begins a drag pushes one snapshot; the moves of
\* the drag and the pointer-up push nothing; and the undo that follows the
\* pointer-up of a drag (pointer-down, moves, pointer-up) brings back the
\* polygon of before the pointer-down.
C4_DragIsOneUndoStep ==
  [][ /\ event'.op \in {"vertex_drag_start", "shape_drag_start"} =>
           history' = Append(history, polygon)
      /\ event'.op \in {"vertex_drag", "shape_drag", "up"} =>
           UNCHANGED << history, future >>
      /\ (gesture' # Null /\ gesture'.undone) =>
           polygon' = gesture'.polygon ]_vars

\* A drag of two moves that changed the polygon was undone in one step.
C4_Witness ==
  /\ gesture # Null
  /\ gesture.undone
  /\ gesture.moves = 2
  /\ future # << >>
  /\ future[1] # gesture.polygon
  /\ polygon = gesture.polygon

\* C5: the bounding box of the current polygon and of every snapshot in the
\* undo and redo stacks is the exact extent of its points: x and y the least
\* coordinates, w and h the greatest minus the least.
C5_BoundingBoxExact == \A p \in Shapes : BoxIsExact(p)

\* A shape was dragged away from the snapshot on top of the undo stack.
C5_Witness ==
  /\ event.op = "shape_drag"
  /\ history # << >>
  /\ history[Len(history)] # Null
  /\ polygon.boundingBox # history[Len(history)].boundingBox
  /\ polygon.boundingBox.w > 0
  /\ polygon.boundingBox.h > 0

\* C6: a closed polygon, current or in either stack, has at least 3 points.
C6_ClosedHasThreePoints ==
  \A p \in Shapes : p.isClosed => Len(p.points) >= 3

\* A segmentation result is installed and a closed snapshot is in the stack.
C6_Witness ==
  /\ polygon # Null
  /\ polygon.isClosed
  /\ \E i \in 1..Len(history) : history[i] # Null /\ history[i].isClosed

\* C7: a pen pointer-down within the hit radius of the first vertex of an
\* open polygon closes it when it has 3 points or more, keeping its points
\* and with the exact bounding box; with fewer points the polygon stays open.
C7_CloseOnFirstVertex ==
  [][ ( /\ PointerDown
        /\ inputMode = "draw"
        /\ polygon # Null
        /\ ~polygon.isClosed
        /\ WithinHitRadius(StepPos, polygon.points[1]) )
      => /\ polygon' # Null
         /\ polygon'.points = polygon.points
         /\ IF Len(polygon.points) >= 3
              THEN polygon'.isClosed /\ BoxIsExact(polygon')
              ELSE ~polygon'.isClosed ]_vars

\* The open triangle on top of the undo stack was closed.
C7_Witness ==
  /\ event.op = "close"
  /\ polygon.isClosed
  /\ Len(polygon.points) = 3
  /\ history[Len(history)] = [polygon EXCEPT !.isClosed = FALSE]

\* C8: a pen pointer-down that is within the hit radius of no vertex, with no
\* polygon or an open one, appends the pointer's image-space point as the last
\* point; the points before it are as they were, and the polygon is open.
C8_AppendOnMiss ==
  [][ ( /\ PointerDown
        /\ inputMode = "draw"
        /\ polygon # Null => ~polygon.isClosed
        /\ polygon # Null =>
             \A i \in 1..Len(polygon.points) :
               ~WithinHitRadius(StepPos, polygon.points[i]) )
      => /\ polygon' # Null
         /\ polygon'.points =
              (IF polygon = Null THEN << >> ELSE polygon.points) \o << StepPos >>
         /\ ~polygon'.isClosed ]_vars

\* A third vertex was appended to an open polygon.
C8_Witness ==
  /\ event.op = "append"
  /\ Len(polygon.points) = 3
  /\ history[Len(history)] # Null
  /\ polygon.points = Append(history[Len(history)].points, polygon.points[3])

\* C9, as stated: a pointer-move of a vertex drag puts the pointer's point at
\* the dragged index and changes no other vertex, nor the number of
\* vertices, nor the closed flag.
C9_AsStated ==
  [][ event'.op = "vertex_drag" =>
        /\ Len(polygon'.points) = Len(polygon.points)
        /\ \A k \in 1..Len(polygon.points) :
             polygon'.points[k] =
               IF k = draggedPointIndex + 1 THEN StepPos ELSE polygon.points[k]
        /\ polygon'.isClosed = polygon.isClosed ]_vars

\* C10: a pointer-move of a shape drag moves every vertex by the pointer's
\* displacement since the pointer event before it, keeps the count, the order
\* and the closed flag; and through a drag the vertices are displaced from
\* where they were at pointer-down by the pointer's displacement since then.
C10_ShapeDragTranslates ==
  [][ event'.op = "shape_drag" =>
        /\ Len(polygon'.points) = Len(polygon.points)
        /\ polygon'.isClosed = polygon.isClosed
        /\ event.op \in {"shape_drag_start", "shape_drag"} =>
             \A k \in 1..Len(polygon.points) :
               polygon'.points[k] =
                 Pt(polygon.points[k].x + (StepPos.x - PrevPos.x),
                    polygon.points[k].y + (StepPos.y - PrevPos.y))
        /\ gesture' # Null =>
             \A k \in 1..Len(polygon.points) :
               polygon'.points[k] =
                 Pt(gesture'.polygon.points[k].x + (StepPos.x - gesture'.pos.x),
                    gesture'.polygon.points[k].y + (StepPos.y - gesture'.pos.y)) ]_vars

\* The second move of a shape drag, away from where the shape was.
C10_Witness ==
  /\ event.op = "shape_drag"
  /\ gesture # Null
  /\ gesture.moves = 2
  /\ polygon.points # gesture.polygon.points

\* C19: whenever the input mode is text, the polygon and the selection box are
\* absent and both history stacks are empty (the switch to text establishes
\* it), and no step taken in text mode by a pointer or keyboard handler changes
\* the polygon or the stacks.
C19_TextModeIsClean ==
  /\ [](inputMode = "text" =>
          /\ polygon = Null
          /\ selectionBox = Null
          /\ history = << >>
          /\ future = << >>)
  /\ [][(inputMode = "text"
           /\ event'.op \notin {"mode", "segment_installed", "segment_dropped"})
          => UNCHANGED << polygon, history, future >>]_vars

\* The Text button was pressed while a segmentation call was in flight (its
\* selection box was on screen and the undo stack held the polygon the
\* box-drag replaced).
C19_Witness ==
  /\ inputMode = "text"
  /\ event.op = "mode"
  /\ calls # << >>
  /\ editsLeft < MaxSmartEdits

\* C20: a selection box exists only while a box-drag gesture is in progress
\* (between pointer-down and pointer-up in smart mode): whenever no box-drag is
\* in progress the selection box is absent, and no entry of either history
\* stack is a selection box.
C20_AsStated ==
  /\ (dragStartBoxPos = Null \/ ~mouseHeld) => selectionBox = Null
  /\ \A i \in 1..Len(history) : "w" \notin DOMAIN history[i]
  /\ \A i \in 1..Len(future) : "w" \notin DOMAIN future[i]

\* C11: at most one segmentation call is in flight at any time, and while one
\* is in flight a pointer-down in smart mode starts no box-drag (it sets neither
\* the drag origin nor the selection box).
C11_AsStated ==
  /\ [](Len(calls) <= 1)
  /\ [][(PointerDown /\ inputMode = "smart" /\ calls # << >>)
          => UNCHANGED << dragStartBoxPos, selectionBox >>]_vars

\* C15: when the segmentation collaborator fails, or its mask traces to fewer
\* than 3 boundary points (an all-background mask included), the polygon
\* installed is the requested box: its four corners (xmin,ymin), (xmax,ymin),
\* (xmax,ymax), (xmin,ymax), closed.  Every result of segmentObject here is
\* the fallback of a failure or a trace of fewer than 3 points, so the step
\* that resolves the call at position k must install the corners of its box.
C15_AsStated ==
  [][\A k \in 1..Len(calls) :
       ( /\ event'.op \in {"segment_installed", "segment_dropped"}
         /\ calls' = [i \in 1..(Len(calls) - 1) |->
                        IF i < k THEN calls[i] ELSE calls[i + 1]] )
       => polygon' = Poly(BoxCorners(calls[k].box), TRUE)]_vars

\* C12: if the user resets the shape or switches to text mode while a
\* segmentation call is in flight, the call's result is discarded: the step
\* that resolves it changes neither the polygon, nor the history stacks, nor
\* the input mode.  A call is only issued in smart mode, so a call in flight in
\* text mode was abandoned by the switch; a call in flight right after a reset
\* was abandoned by the reset.
C12_AsStated ==
  [][( /\ calls # << >>
       /\ inputMode = "text" \/ event.op = "reset"
       /\ event'.op \in {"segment_installed", "segment_dropped"} )
     => UNCHANGED << polygon, history, future, inputMode >>]_vars

\* C13: if the shape is reset while an extraction is in flight, the extracted
\* and the processed raster are still absent after the extraction resolves:
\* the step that completes an extraction right after a reset leaves both
\* rasters absent.
C13_AsStated ==
  [][( /\ extractions # << >>
       /\ event.op = "reset"
       /\ event'.op = "extract_done" )
     => /\ extractedBase64' = Null
        /\ processedBase64' = Null]_vars

C17_AsStated ==
  [][event'.op = "extract_failed"
     => /\ error' # Null
        /\ << extractedBase64', processedBase64' >> = event'.e.before]_vars

\* C18: every extraction attempt that passed validation eventually ends with
\* the loading flag false, whether the collaborator succeeds, fails or returns
\* a payload that cannot be decoded: every suspended attempt has a step left
\* that resumes it (all of them run to the `finally` that clears the flag).
C18_AsStated ==
  \A k \in 1..Len(extractions) :
    \/ ENABLED (\E outcome \in {"image", "garbage", "rejected"} :
                  collaboratorSettled(k, outcome))
    \/ ENABLED segmentDecoded(k)

\* C16: an extraction requested without a closed polygon (pen or smart mode)
\* or with an empty or blank prompt (text mode), and an image generation
\* requested with an empty prompt, is rejected locally: no collaborator call is
\* made, the loading flags and the rasters are unchanged, and a message for
\* the user is set.
C16_AsStated ==
  [][( event'.op \in {"extract_ignored", "extract_rejected", "generate_ignored"} )
     => /\ UNCHANGED << extractions, generations, calls >>
        /\ UNCHANGED << loading, isGenerating, rasterVars >>
        /\ IF event'.op = "generate_ignored" THEN appError' # Null
                                             ELSE error' # Null]_vars

\* C30: the point-in-polygon test puts (5,5) inside and (15,5) outside the
\* square (0,0), (10,0), (10,10), (0,10); and for an axis-aligned rectangle it
\* puts every point strictly inside it inside and every point strictly outside
\* it outside, whichever vertex the sequence starts at and whichever way round
\* it runs.
C30_RectangleClassified ==
  /\ isPointInPolygon(Pt(5, 5), << Pt(0, 0), Pt(10, 0), Pt(10, 10), Pt(0, 10) >>)
  /\ ~isPointInPolygon(Pt(15, 5), << Pt(0, 0), Pt(10, 0), Pt(10, 10), Pt(0, 10) >>)
  /\ (tester # Null /\ tester.pc = "returned") =>
       LET r == tester.rect
           p == tester.p
       IN /\ (r.x1 < p.x /\ p.x < r.x2 /\ r.y1 < p.y /\ p.y < r.y2)
               => tester.inside
          /\ (p.x < r.x1 \/ p.x > r.x2 \/ p.y < r.y1 \/ p.y > r.y2)
               => ~tester.inside

\* The square of the example, given from its third corner and the other way
\* round, was tested against (5,5) and found to contain it.
C30_Witness ==
  /\ tester # Null
  /\ tester.pc = "returned"
  /\ tester.points = << Pt(0, 10), Pt(10, 10), Pt(10, 0), Pt(0, 0) >>
  /\ tester.p = Pt(5, 5)
  /\ tester.inside

\* C21: traceContour returns an empty sequence for a mask without a foreground
\* pixel; a walk that was not stopped by the iteration cap returns a sequence
\* whose first point is the first foreground pixel in row-major order and whose
\* last point is that same pixel.
C21_StartsAndEndsAtFirstPixel ==
  (tracer # Null /\ tracer.pc = "returned") =>
    /\ (\A i \in DOMAIN tracer.mask : tracer.mask[i] = 0) => tracer.points = << >>
    /\ ((\E i \in DOMAIN tracer.mask : tracer.mask[i] = 1) /\ tracer.why # "cap") =>
         /\ Len(tracer.points) >= 1
         /\ LET p == tracer.points[1] IN
            \* no foreground pixel in a row above p, nor left of p in its row
            /\ Foreground(tracer.mask, tracer.width, p.x, p.y)
            /\ \A x \in 0..(tracer.width - 1), y \in 0..(tracer.height - 1) :
                 Foreground(tracer.mask, tracer.width, x, y) =>
                   (y > p.y \/ (y = p.y /\ x >= p.x))
         /\ tracer.points[Len(tracer.points)] = tracer.points[1]

\* A walk around a shape whose first pixel by rows is not its first pixel by
\* columns has come back to its start.
C21_Witness ==
  /\ tracer # Null
  /\ tracer.pc = "returned"
  /\ tracer.why = "start"
  /\ Len(tracer.points) >= 4
  /\ tracer.rect = Null
  /\ tracer.mask[1] = 0
  /\ \E i \in DOMAIN tracer.mask : tracer.mask[i] = 1 /\ (i - 1) % tracer.width = 0

\* C22: the walk ends after at most 2 * width * height counted steps - by
\* coming back to its start, by finding no foreground neighbour, or at the cap -
\* so the returned sequence has at most 2 * width * height + 1 points, and what
\* is returned is the sequence traced so far.
C22_WalkIsBounded ==
  /\ tracer # Null =>
       /\ tracer.count <= 2 * tracer.width * tracer.height
       /\ Len(tracer.points) <= 2 * tracer.width * tracer.height + 1
       /\ tracer.start # Null => Len(tracer.points) = tracer.count + 1
       /\ tracer.pc = "walk" =>
            /\ tracer.count < 2 * tracer.width * tracer.height
            /\ ENABLED traceStep
       /\ tracer.pc = "returned" =>
            /\ tracer.why \in {"empty", "start", "no_neighbour", "cap"}
            /\ tracer.why = "cap" => tracer.count = 2 * tracer.width * tracer.height
            /\ tracer.why = "start" =>
                 tracer.points[Len(tracer.points)] = tracer.start
            /\ tracer.why = "no_neighbour" =>
                 \A d \in 0..7 :
                   ~isValid(tracer.mask, tracer.width, tracer.height,
                            tracer.x + DirX(d), tracer.y + DirY(d))

\* A walk of more steps than the mask has pixels has returned.
C22_Witness ==
  /\ tracer # Null
  /\ tracer.pc = "returned"
  /\ tracer.count > tracer.width * tracer.height
  /\ Len(tracer.points) = tracer.count + 1

\* C23: for a filled rectangle of at least 3 x 3 pixels anywhere in the mask,
\* the first and last returned points are adjacent or equal, there are at most
\* 2 * (w + h) points, and every point is a border pixel of the rectangle.
C23_RectangleBorderTraced ==
  (tracer # Null /\ tracer.rect # Null /\ tracer.pc = "returned") =>
    LET r == tracer.rect
        w == r.x2 - r.x1 + 1
        h == r.y2 - r.y1 + 1
        first == tracer.points[1]
        last == tracer.points[Len(tracer.points)]
    IN
    /\ Len(tracer.points) >= 1
    /\ first.x - last.x \in {-1, 0, 1}
    /\ first.y - last.y \in {-1, 0, 1}
    /\ Len(tracer.points) <= 2 * (w + h)
    /\ \A i \in DOMAIN tracer.points :
         LET p == tracer.points[i] IN
         /\ r.x1 <= p.x /\ p.x <= r.x2 /\ r.y1 <= p.y /\ p.y <= r.y2
         /\ p.x \in {r.x1, r.x2} \/ p.y \in {r.y1, r.y2}

\* The walk around a 3 x 4 rectangle that touches no edge of its mask has
\* returned with more than four points.
C23_Witness ==
  /\ tracer # Null
  /\ tracer.rect # Null
  /\ tracer.pc = "returned"
  /\ tracer.rect.x1 > 0 /\ tracer.rect.y1 > 0
  /\ tracer.rect.x2 < tracer.width - 1 /\ tracer.rect.y2 < tracer.height - 1
  /\ Len(tracer.points) > 4

\* C24: for an input of at least 2 points and a tolerance t > 0, the output of
\* simplifyPolygon is a subsequence of the input that keeps its first and last
\* point, has between 2 and the input's number of points, and every input point
\* lies within t of a segment between two consecutive output points; an input
\* of at most 2 points is returned unchanged.
C24_SimplifiedWithinTolerance ==
  (simplifier # Null /\ simplifier.pc = "returned") =>
    LET points == simplifier.points
        out == simplifier.out
        t == simplifier.tolerance
        n == Len(points)
        Sq(a, b) == (a.x - b.x) * (a.x - b.x) + (a.y - b.y) * (a.y - b.y)
        \* p is within t of the segment from a to b
        Near(p, a, b) ==
          LET len2 == Sq(a, b)
              dot == (p.x - a.x) * (b.x - a.x) + (p.y - a.y) * (b.y - a.y)
              cross == (p.x - a.x) * (b.y - a.y) - (p.y - a.y) * (b.x - a.x)
          IN IF dot <= 0 THEN Sq(p, a) <= t * t
             ELSE IF dot >= len2 THEN Sq(p, b) <= t * t
             ELSE cross * cross <= t * t * len2
    IN
    /\ n <= 2 => out = points
    /\ n >= 2 =>
         /\ Len(out) >= 2 /\ Len(out) <= n
         /\ out[1] = points[1]
         /\ out[Len(out)] = points[n]
         /\ \E f \in [1..Len(out) -> 1..n] :
              /\ \A k \in 1..Len(out) : out[k] = points[f[k]]
              /\ \A k \in 1..(Len(out) - 1) : f[k] < f[k + 1]
         /\ \A i \in 1..n :
              \E k \in 1..(Len(out) - 1) : Near(points[i], out[k], out[k + 1])

\* A call has dropped one interior point and kept another.
C24_Witness ==
  /\ simplifier # Null
  /\ simplifier.pc = "returned"
  /\ Len(simplifier.points) = 4
  /\ Len(simplifier.out) = 3
  /\ simplifier.points[1] # simplifier.points[4]

\* C25: in every reachable state the viewport scale is positive and within
\* [0.1, 5.0] - after zoom steps, after the initial fit on image load and after
\* fit-to-view, for any image size and visible-area size.
C25_AsStated ==
  scale # Null =>
    /\ scale.num > 0
    /\ 10 * scale.num >= scale.den
    /\ scale.num <= 5 * scale.den

\* C26: a zoom leaves the image-space point under its anchor where it was, also
\* when the new scale is clamped; a zoom without an anchor leaves the image-space
\* point under the centre of the visible area where it was.
C26_AsStated ==
  [][event'.op \in {"zoom_in", "zoom_out", "wheel"} =>
       LET anchor == IF event'.e # Null THEN event'.e
                     ELSE Pt(ClientSize.w \div 2, ClientSize.h \div 2)
       IN toImageSpace(anchor, scale', offset') = toImageSpace(anchor, scale, offset)]_vars

\* C27 as stated: in the band the alpha becomes exactly the existing alpha
\* times (d - T) / (S * 10).
C27_AsStated ==
  (keyer # Null /\ keyer.pc = "returned") =>
    \A i \in DOMAIN keyer.data :
      LET px == keyer.data[i]
          out == keyer.out[i]
          n == SqDist(px)
          tol == keyer.tol
          range == keyer.range
      IN (px.a # 0 /\ n >= tol * tol /\ n < (tol + range) * (tol + range)) =>
           (out.a * range + px.a * tol) * (out.a * range + px.a * tol) = px.a * px.a * n

\* C27: alpha keying maps each pixel on its own.  With d the RGB distance from
\* white: a pixel of alpha 0 is left as it is; if d < T the alpha becomes 0;
\* if T <= d < T + S * 10 the alpha becomes the existing alpha times
\* (d - T) / (S * 10) rounded down to a whole number, and never more than one
\* below that product; otherwise the alpha stays.  R, G and B never change and
\* the alpha never grows.
C27_KeyedPerPixel ==
  (keyer # Null /\ keyer.pc = "returned") =>
    /\ DOMAIN keyer.out = DOMAIN keyer.data
    /\ \A i \in DOMAIN keyer.data :
         LET px == keyer.data[i]
             out == keyer.out[i]
             n == SqDist(px)
             tol == keyer.tol
             range == keyer.range
             lhs == out.a * range + px.a * tol
             next == (out.a + 1) * range + px.a * tol
         IN
         /\ out.r = px.r /\ out.g = px.g /\ out.b = px.b
         /\ out.a \in 0..px.a
         /\ px.a = 0 => out = px
         /\ (px.a # 0 /\ n < tol * tol) => out.a = 0
         /\ (px.a # 0 /\ n >= tol * tol /\ n < (tol + range) * (tol + range)) =>
              /\ lhs * lhs <= px.a * px.a * n
              /\ next * next >= px.a * px.a * n
         /\ (px.a # 0 /\ n >= (tol + range) * (tol + range)) => out.a = px.a
         /\ \A j \in DOMAIN keyer.data : keyer.data[j] = px => keyer.out[j] = out

\* A pass has left a pixel of the band with part of its alpha, next to a pixel
\* it made transparent.
C27_Witness ==
  /\ keyer # Null
  /\ keyer.pc = "returned"
  /\ keyer.data[1].a = 255
  /\ keyer.out[1].a > 0 /\ keyer.out[1].a < 255
  /\ keyer.data[2].a = 255
  /\ keyer.out[2].a = 0

\* C28: for a fixed tolerance, softness and input alpha the output alpha does
\* not decrease as the distance from white grows from T upwards, and it is 0
\* for a distance below T - also when the softness is 0 and the band is empty.
C28_MonotoneInDistance ==
  (keyer # Null /\ keyer.pc = "returned") =>
    \A i \in DOMAIN keyer.data :
      /\ SqDist(keyer.data[i]) < keyer.tol * keyer.tol => keyer.out[i].a = 0
      /\ \A j \in DOMAIN keyer.data :
           (/\ keyer.data[i].a = keyer.data[j].a
            /\ SqDist(keyer.data[i]) >= keyer.tol * keyer.tol
            /\ SqDist(keyer.data[i]) <= SqDist(keyer.data[j])) =>
             keyer.out[i].a <= keyer.out[j].a

\* Two pixels of the same alpha inside the band: the one farther from white
\* has kept more of it.
C28_Witness ==
  /\ keyer # Null
  /\ keyer.pc = "returned"
  /\ keyer.range > 0
  /\ keyer.data[1].a = keyer.data[2].a
  /\ SqDist(keyer.data[1]) >= keyer.tol * keyer.tol
  /\ SqDist(keyer.data[1]) < SqDist(keyer.data[2])
  /\ SqDist(keyer.data[2]) < (keyer.tol + keyer.range) * (keyer.tol + keyer.range)
  /\ keyer.out[1].a < keyer.out[2].a

\* C29: a keying pass never modifies its source.  It leaves the extracted raster
\* as it was and publishes the keying of that raster's own pixels with the
\* tolerance and softness of the pass, whatever earlier passes left on the
\* canvas - so passes with settings A, B and A again end with the raster of
\* the first pass with A.
C29_PassKeysTheSource ==
  [][event'.op = "keyed" =>
       /\ extractedBase64' = extractedBase64
       /\ processedBase64'.data =
            toDataURL(keyedData(Raster(event'.e.pass.id), event'.e.pass.tol,
                                event'.e.pass.soft * 10, {}))]_vars

\* A pass with tolerance 15 has published over a canvas that held the result
\* of a pass with tolerance 20 on the same raster, after two slider moves.
C29_Witness ==
  /\ event.op = "keyed"
  /\ event.e.pass.tol = 15 /\ event.e.pass.soft = 2
  /\ event.e.over # Null
  /\ event.e.over.data = keyedData(Raster(event.e.pass.id), 20, 20, {})
  /\ event.e.over # canvas
  /\ movesLeft = MaxMoves - 2
  /\ passes = << >>
  /\ processedBase64 # Null /\ processedBase64.keyed

\* C33: every point the contour tracer returns is an in-bounds foreground pixel
\* of the mask, and every two consecutive points of the returned sequence are
\* distinct and 8-adjacent (they differ by at most 1 in x and in y).
C33_ContourIsConnected ==
  (tracer # Null /\ tracer.pc = "returned") =>
    /\ \A i \in DOMAIN tracer.points :
         LET p == tracer.points[i] IN
         /\ p.x \in 0..(tracer.width - 1)
         /\ p.y \in 0..(tracer.height - 1)
         /\ tracer.mask[p.y * tracer.width + p.x + 1] = 1
    /\ \A i \in 1..(Len(tracer.points) - 1) :
         LET p == tracer.points[i]
             q == tracer.points[i + 1]
         IN
         /\ p # q
         /\ q.x - p.x \in {-1, 0, 1}
         /\ q.y - p.y \in {-1, 0, 1}

\* A walk has returned that took a diagonal step and passed through one pixel
\* twice.
C33_Witness ==
  /\ tracer # Null
  /\ tracer.pc = "returned"
  /\ \E i \in 1..(Len(tracer.points) - 1) :
       /\ tracer.points[i].x # tracer.points[i + 1].x
       /\ tracer.points[i].y # tracer.points[i + 1].y
  /\ \E i \in 2..(Len(tracer.points) - 1), j \in 2..(Len(tracer.points) - 1) :
       i < j /\ tracer.points[i] = tracer.points[j]

\* C31: preloadModel is safe to call any number of times, also while a load is
\* in progress: at most one load is in progress at any time, a model that is
\* loaded is never loaded again, and the loading flag is false whenever no load
\* is in progress, after success and after failure.
C31_OneLoadAtATime ==
  /\ [](/\ Len(preloads) <= 1
        /\ preloads = << >> => ~isModelLoading)
  /\ [][/\ Len(preloads') > Len(preloads) => model = Null
        /\ model # Null => model' = model]_vars

\* A call made while a load was in progress has returned, and the load goes on.
C31_Witness ==
  /\ event.op = "preload_resolved"
  /\ event.e.overlapped
  /\ Len(preloads) = 1
  /\ isModelLoading

\* C39: whenever a call of preloadModel resolves, the model and the processor
\* are both initialized, also when it was made while another load was in
\* progress; a segmentObject call that overlaps a load waits for the model and
\* does not fall back to the box.
C39_AsStated ==
  [][/\ event'.op = "preload_resolved" => (model' # Null /\ processor' # Null)
     /\ (event'.op = "segment_resolved" /\ event'.e.overlapped) =>
          event'.e.result # "box"]_vars

\* C40: whenever no load is in progress the model and the processor are both
\* loaded or both absent, so that a later call loads again after a failed
\* initialization.
C40_AsStated ==
  preloads = << >> => (model = Null <=> processor = Null)

\* The 0-based indices of the vertices within the hit radius of pos.
VerticesHit(pos) ==
  IF polygon = Null THEN {}
  ELSE { i \in 0..(Len(polygon.points) - 1) :
           WithinHitRadius(pos, polygon.points[i + 1]) }

\* The step pushed the polygon of before it, once.
PushedOnce == history' = Append(history, polygon)

\* C32: a pointer-down in pen mode has one outcome, in this priority: (1) a
\* vertex within the hit radius: the lowest such index is taken, the polygon is
\* closed if that index is 0 and the polygon is open with 3 points or more,
\* and otherwise a drag of that vertex starts; (2) else a closed polygon with
\* the point inside: a shape drag starts; (3) else no polygon or an open one:
\* the point is appended; (4) else nothing changes. One history entry is
\* pushed in cases 1 to 3 and none in case 4.
C32_PointerDownPriority ==
  [][ (PointerDown /\ inputMode = "draw") =>
        LET hits  == VerticesHit(StepPos)
            first == CHOOSE i \in hits : \A j \in hits : i <= j
        IN
        IF hits # {} THEN
          IF first = 0 /\ ~polygon.isClosed /\ Len(polygon.points) >= 3
            THEN /\ polygon'.isClosed
                 /\ polygon'.points = polygon.points
                 /\ UNCHANGED dragVars
                 /\ PushedOnce
            ELSE /\ draggedPointIndex' = first
                 /\ polygon' = polygon
                 /\ UNCHANGED << isDraggingPolygon, dragStartPos >>
                 /\ PushedOnce
        ELSE IF polygon # Null /\ polygon.isClosed
                /\ isPointInPolygon(StepPos, polygon.points)
          THEN /\ isDraggingPolygon'
               /\ dragStartPos' = StepPos
               /\ polygon' = polygon
               /\ UNCHANGED draggedPointIndex
               /\ PushedOnce
        ELSE IF polygon = Null \/ ~polygon.isClosed
          THEN /\ polygon' # Null
               /\ ~polygon'.isClosed
               /\ polygon'.points =
                    (IF polygon = Null THEN << >> ELSE polygon.points)
                      \o << StepPos >>
               /\ UNCHANGED dragVars
               /\ PushedOnce
        ELSE UNCHANGED << polygon, history, future, dragVars >> ]_vars

\* A pointer-down outside a closed triangle and away from its vertices changed
\* nothing, and the undo stack still holds the four snapshots of the drawing.
C32_Witness ==
  /\ event.op = "down_miss"
  /\ mouseHeld
  /\ polygon # Null
  /\ polygon.isClosed
  /\ VerticesHit(getMousePosInImageSpace(event.e)) = {}
  /\ ~isPointInPolygon(getMousePosInImageSpace(event.e), polygon.points)
  /\ Len(history) = 4
  /\ draggedPointIndex = NoIndex
  /\ ~isDraggingPolygon

\* C34: k undos followed by k redos with nothing in between leave the polygon,
\* the undo stack and the redo stack as they were before the undos; and
\* k redos followed by k undos leave all three as they were before the redos.
C34_RoundTripRestoresAll ==
  /\ (run.undos > 0 /\ run.redos = run.undos) => Held = run.start
  /\ (run.back.redos > 0 /\ run.back.undos = run.back.redos) =>
       Held = run.back.start

\* Two undos and then two redos ran from a state with both stacks filled,
\* between polygons that differ.
C34_Witness ==
  /\ run.undos = 2
  /\ run.redos = 2
  /\ run.start.history # << >>
  /\ run.start.future # << >>
  /\ run.mid # run.start.polygon
  /\ Held = run.start

\* C35, as stated: while a vertex drag is active the dragged index is that of
\* a vertex of the current polygon, also after an undo or redo by keyboard in
\* the middle of the drag; and a pointer-move of a vertex drag keeps the
\* number of vertices and leaves no entry of the point sequence missing.
C35_AsStated ==
  /\ [] ( (mouseHeld /\ draggedPointIndex # NoIndex) =>
            /\ polygon # Null
            /\ draggedPointIndex < Len(polygon.points) )
  /\ [][ event'.op = "vertex_drag" =>
           /\ Len(polygon'.points) = Len(polygon.points)
           /\ ~HasHole(polygon'.points) ]_vars

\* C36, as stated: the undo that follows the installation of a box-drag's
\* segmentation result brings back the polygon that was current before the
\* pointer-down of that box-drag.
C36_AsStated ==
  [][ ( /\ event.op = "segment_installed"
        /\ event.e # Null
        /\ event'.op = "undo" )
      => polygon' = event.e.polygon ]_vars

\* C37, as stated: the snapshot that the installation of a segmentation result
\* pushes onto the undo stack is the polygon current at that moment.
C37_AsStated ==
  [][ event'.op = "segment_installed" =>
        history' = Append(history, polygon) ]_vars

\* The rasters a keying of the payload `id` with the settings tol and soft
\* may publish.
KeyedRasters(id, tol, soft) ==
  LET data == Raster(id) IN
  { toDataURL(keyedData(data, tol, soft * 10, short)) :
      short \in SUBSET { << data[i].a, SqDist(data[i]) >> : i \in DOMAIN data } }

\* C38, as stated: whenever no keying pass is pending, the processed raster is
\* absent if the extracted raster is absent, and otherwise it is the current
\* extracted raster keyed with the current tolerance and softness (the raster
\* as it is when white removal is off).
C38_AsStated ==
  passes = << >> =>
    IF extractedBase64 = Null THEN processedBase64 = Null
    ELSE /\ processedBase64 # Null
         /\ processedBase64.of = extractedBase64.id
         /\ processedBase64.keyed = removeWhite
         /\ removeWhite =>
              processedBase64.data
                \in KeyedRasters(extractedBase64.id, tolerance, edgeSoftness)

====
